---------------------------- MODULE Spec2Model ----------------------------
(***************************************************************************)
(* Model of the memory manager and the scheduler of the kernel (x86, two   *)
(* page-table levels).  Sizes are scaled down: the program's 1024 entries  *)
(* per table, 32-bit words and 4096-byte pages become the small numbers    *)
(* below; every formula of the code is kept in terms of these names.       *)
(***************************************************************************)
EXTENDS Integers, Sequences, FiniteSets, TLC

\* krnl/src/mm/pg.rs:20 (1024 in the program)
PAGES_PER_TABLE == 4
\* usize::BITS, krnl/src/bitmap.rs:20 (32 in the program)
BITS == 4
\* krnl/src/mm/pg.rs:17 (4096 in the program)
BYTES_PER_PAGE == 2
\* top-level index of the kernel half, src/bs/i386.rs:47 (0x3C0 in the program)
KERNEL_INDEX == 1
\* the largest count passed to allocate / free
MaxCount == 2
\* the number of allocate / free calls followed
MaxCalls == 4
\* the largest size in bytes of a layout given to alloc
MaxSize == 4
\* bytes of one bitmap word, scaled with BITS (size_of::<usize>())
BYTES_PER_BLOCK == 1
\* entries of a Multiboot memory map
MaxEntries == 2
\* the largest number of words of a bitmap given to find_free
MaxWords == 3
\* runnables spawned
NThreads == 3
\* the capacity a VecDeque takes at its first push_back (4 in the program)
MinCap == 2
\* IRQ0 ticks delivered
MaxTicks == 3
\* words of a stack buffer (16 KiB in the kernel)
STACK_WORDS == 16
\* IRQ handlers followed one after the other
MaxIrqs == 2
\* address arithmetic of PageTable::table: bits of a table index (10 on
\* x86, 9 on x86-64), bits of the offset inside a page (12), and bits of
\* an x86-64 word above the virtual address (16)
EntryBits == 2
OffsetBits == 1
SignBits == 2
\* bits of the word of a page-table entry (usize::BITS), the low two
\* standing for the twelve bits below the frame number
EntryWidth == 7
\* frames of the statics PTL0 and PTL1 inside the kernel image
PTL0 == 1
PTL1 == 2

RECURSIVE_INDEX == PAGES_PER_TABLE - 1
PAGES_TOTAL == PAGES_PER_TABLE * PAGES_PER_TABLE - 1
KERNEL_FRAMES == PAGES_PER_TABLE
PHYS_MEM_BARE_SIZE == 2 * PAGES_PER_TABLE
MaxTopFrame == 3 * PAGES_PER_TABLE
WordMod == 2 ^ BITS
KERNEL_VMA_PAGE == (KERNEL_INDEX * PAGES_PER_TABLE) % (PAGES_TOTAL + 1)

Frames == 0 .. (MaxTopFrame - 1)
TableIdx == 0 .. (PAGES_PER_TABLE - 1)
Pages == 0 .. PAGES_TOTAL
None == -1

Min(S) == CHOOSE x \in S : \A y \in S : x <= y
Max(S) == CHOOSE x \in S : \A y \in S : x >= y

---------------------------------------------------------------------------
(* Bitmap: a sequence of bits, word k holding bits k*BITS .. k*BITS+BITS-1 *)

NWords(bm) == Len(bm) \div BITS
Bit(bm, i) == bm[i + 1]
ZeroCount(bm) == Cardinality({i \in 1 .. Len(bm) : bm[i] = 0})
AllOnes(nwords) == [i \in 1 .. (nwords * BITS) |-> 1]
AllZeros(nwords) == [i \in 1 .. (nwords * BITS) |-> 0]

\* the set of one-bit positions of word b (the empty set is the word 0;
\* a word index past the end reads as 0, unwrap_or(&0))
Block(bm, b) ==
  IF b < NWords(bm) THEN {i \in 0 .. (BITS - 1) : Bit(bm, b * BITS + i) = 1} ELSE {}

\* trailing_zeros that counts the lowest one bit as well: a faulty variant
\* the properties of the yielded ranges must be able to tell from
\* trailing_zeros
TrailingZerosPastOne(blk) == IF blk = {} THEN BITS ELSE Min(blk) + 1
TrailingZeros(blk) == IF blk = {} THEN BITS ELSE Min(blk)
\* leading_zeros that counts nothing: a faulty variant the properties of
\* find_free must be able to tell from leading_zeros
LeadingZerosNone(blk) == 0
LeadingZeros(blk) == IF blk = {} THEN BITS ELSE BITS - 1 - Max(blk)

\* Masks with a last mask that reaches one bit too far: a faulty variant
\* the properties of set_ones and set_zeros must be able to tell from Masks
MaskBitsPastEnd(start, end) ==
  UNION {{b * BITS + i : i \in {j \in 0 .. (BITS - 1) :
                                  (b > start \div BITS \/ j >= start % BITS)
                                  /\ (b < end \div BITS \/ j <= end % BITS)}}
         : b \in (start \div BITS) .. (end \div BITS)}

\* Masks::new and Masks::next: the (word, mask) pairs of a range, as the set
\* of bit indices they cover
MaskBits(start, end) ==
  LET first_index == start \div BITS
      last_index == end \div BITS
      first_mask(b) == IF b = first_index THEN {i \in 0 .. (BITS - 1) : i >= start % BITS}
                       ELSE 0 .. (BITS - 1)
      last_mask == {i \in 0 .. (BITS - 1) : i < end % BITS}
  IN  UNION {
        {b * BITS + i : i \in (IF b < last_index THEN first_mask(b)
                               ELSE first_mask(b) \cap last_mask)}
        : b \in first_index .. last_index }

\* assert!(end > start); assert!(end <= length)
MasksOk(bm, start, end) == end > start /\ end <= Len(bm)

\* Bitmap::set_ones: self.0[block] |= mask
SetOnes(bm, start, end) ==
  LET masks == MaskBits(start, end)
  IN  [i \in 1 .. Len(bm) |-> IF (i - 1) \in masks THEN 1 ELSE bm[i]]
\* set_zeros that clears nothing: a faulty variant the round trip must be
\* able to tell from set_zeros
SetZerosKeeps(bm, start, end) == bm
\* Bitmap::set_zeros: self.0[block] &= !mask
SetZeros(bm, start, end) ==
  LET masks == MaskBits(start, end)
  IN  [i \in 1 .. Len(bm) |-> IF (i - 1) \in masks THEN 0 ELSE bm[i]]

\* Bitmap::consecutive_zeros: the fresh iterator
ConsecutiveZeros(bm) == [block_index |-> 0, block |-> Block(bm, 0), index |-> 0]

RECURSIVE CZWhile(_, _, _)
\* ConsecutiveZeros::next from its inner `while self.block != 0` on, the
\* tail after it, and the next turn of the outer loop: [some, start, end, it]
CZWhile(bm, it, fits) ==
  LET bi == it.block_index
      adv(idx) == [block_index |-> bi + 1, block |-> Block(bm, bi + 1), index |-> idx]
  IN
  IF it.block # {}
  THEN LET next_index == bi * BITS + TrailingZeros(it.block)
           it2 == [it EXCEPT !.index = next_index + 1,
                             !.block = it.block \ {Min(it.block)}]
       IN  IF next_index - it.index >= fits
           THEN [some |-> TRUE, start |-> it.index, end |-> next_index, it |-> it2]
           ELSE CZWhile(bm, it2, fits)
  ELSE LET next_index == it.index + LeadingZeros(Block(bm, bi))
           it3 == adv(it.index)
       IN  IF next_index - it.index >= fits
           THEN [some |-> TRUE, start |-> it.index, end |-> next_index,
                 it |-> adv(next_index)]
           ELSE IF it3.block_index >= NWords(bm)
           THEN [some |-> FALSE, start |-> 0, end |-> 0, it |-> it3]
           ELSE IF it3.block = {} /\ (it3.block_index + 1) * BITS - it3.index >= fits
           THEN [some |-> TRUE, start |-> it3.index, end |-> (it3.block_index + 1) * BITS,
                 it |-> [block_index |-> it3.block_index + 1,
                         block |-> Block(bm, it3.block_index + 1),
                         index |-> (it3.block_index + 1) * BITS]]
           ELSE CZWhile(bm, it3, fits)

\* ConsecutiveZeros::next, entered at the top of its outer loop
CZNext(bm, it, fits) ==
  LET bi == it.block_index
  IN
  IF bi >= NWords(bm) THEN [some |-> FALSE, start |-> 0, end |-> 0, it |-> it]
  ELSE IF it.block = {} /\ (bi + 1) * BITS - it.index >= fits
  THEN [some |-> TRUE, start |-> it.index, end |-> (bi + 1) * BITS,
        it |-> [block_index |-> bi + 1, block |-> Block(bm, bi + 1),
                index |-> (bi + 1) * BITS]]
  ELSE CZWhile(bm, it, fits)

---------------------------------------------------------------------------
(* PhysicalMemory: s.used is the bitmap, s.free the stored count.  s.st is *)
(* "ok", or says how the kernel stopped ("panic", "hang").                 *)

Panic(s) == [s EXCEPT !.st = "panic"]

\* PhysicalMemory::mark_used (free is a usize: the subtraction wraps)
MarkUsed(s, frame_start, count) ==
  IF ~MasksOk(s.used, frame_start, frame_start + count) THEN Panic(s)
  ELSE [s EXCEPT !.used = SetOnes(s.used, frame_start, frame_start + count),
                 !.free = (s.free - count) % WordMod]

\* mark_free that clears the bits and forgets the counter: a faulty
\* variant the free-count properties must be able to tell from mark_free
MarkFreeKeepCount(s, frame_start, count) ==
  IF ~MasksOk(s.used, frame_start, frame_start + count) THEN Panic(s)
  ELSE [s EXCEPT !.used = SetZeros(s.used, frame_start, frame_start + count)]

\* PhysicalMemory::mark_free
MarkFree(s, frame_start, count) ==
  IF ~MasksOk(s.used, frame_start, frame_start + count) THEN Panic(s)
  ELSE [s EXCEPT !.used = SetZeros(s.used, frame_start, frame_start + count),
                 !.free = (s.free + count) % WordMod]

\* PhysicalMemory::find_free: the start frame, or None
PmFindFree(s, count) ==
  IF s.free < count THEN None
  ELSE LET r == CZNext(s.used, ConsecutiveZeros(s.used), count)
       IN  IF r.some THEN r.start ELSE None

---------------------------------------------------------------------------
(* Page tables.  s.mem[f] is the content of frame f read as a table of     *)
(* PAGES_PER_TABLE entries; an entry is the word 0 (free) or               *)
(* PRESENT | WRITEABLE | frame << shift.                                   *)

\* Level1::index, Level2::index
L1Index(page) == page % PAGES_PER_TABLE
L2Index(page) == (page \div PAGES_PER_TABLE) % PAGES_PER_TABLE

\* PageTableEntry::used, ::map, ::unmap's frame; the shift of map
\* drops the bits that leave the word
EntryUsed(e) == e # 0
EntryMap(frame) == (1 + 2 + frame * 4) % (2 ^ EntryWidth)
EntryFrameShort(e) == e \div 2
EntryFrame(e) == e \div 4
EntryPresent(e) == e % 2 = 1
EntryWriteable(e) == (e \div 2) % 2 = 1

\* PageTableEntry::unmap: the frame returned and the entry left
EntryUnmap(e) == [frame |-> EntryFrame(e), entry |-> 0]

ZeroTable == [i \in TableIdx |-> 0]

\* the MMU's walk from cr3 (the frame PTL0): the frame behind a page, or None
Xlate(mem, page) ==
  LET e2 == mem[PTL0][L2Index(page)]
  IN  IF ~EntryPresent(e2) \/ EntryFrame(e2) \notin Frames THEN None
      ELSE LET e1 == mem[EntryFrame(e2)][L1Index(page)]
           IN  IF ~EntryPresent(e1) \/ EntryFrame(e1) \notin Frames THEN None
               ELSE EntryFrame(e1)

\* PAGE_TABLE (0xFFFFF000): the page through which the top-level table is edited
PAGE_TABLE == PAGES_TOTAL

\* PageTable::table on the table at page tpage: the page of the child table, or None
Table(mem, tpage, page) ==
  LET tf == Xlate(mem, tpage)
  IN  IF tf = None THEN None
      ELSE IF ~EntryUsed(mem[tf][L2Index(page)]) THEN None
      ELSE ((tpage * PAGES_PER_TABLE) % (PAGES_TOTAL + 1)) + L2Index(page)

\* whether the leaf entry of a page is in use, as find_free reads it
LeafUsed(mem, page) ==
  LET t == Table(mem, PAGE_TABLE, page)
  IN  t # None /\ Xlate(mem, t) # None /\ EntryUsed(mem[Xlate(mem, t)][L1Index(page)])

RECURSIVE FindFreeLoop(_, _, _, _, _)
\* VirtualMemory::find_free: [page, skipped], page None when the address
\* space is exhausted; skipped collects the pages passed over as free
\* because an intermediate entry was absent
FindFreeLoop(mem, page_start, consecutive_pages, count, skipped) ==
  IF consecutive_pages >= count THEN [page |-> page_start, skipped |-> skipped]
  ELSE IF page_start + count > PAGES_TOTAL THEN [page |-> None, skipped |-> skipped]
  ELSE LET page == page_start + consecutive_pages
           t == Table(mem, PAGE_TABLE, page)
       IN  IF t = None
           THEN FindFreeLoop(mem, page_start, consecutive_pages + PAGES_PER_TABLE, count,
                             skipped \cup (page .. (page + PAGES_PER_TABLE - 1)))
           ELSE IF ~EntryUsed(mem[Xlate(mem, t)][L1Index(page)])
           THEN FindFreeLoop(mem, page_start, consecutive_pages + 1, count, skipped)
           ELSE FindFreeLoop(mem, page_start + 1 + consecutive_pages, 0, count, skipped)

VmFindFree(mem, page_start, count) == FindFreeLoop(mem, page_start, 0, count, {})

\* the bits of the bitmap whose words are stored in frame f (s.store is
\* the frames of the bitmap's storage when it is heap memory)
StoreBits(s, f) ==
  {b \in 0 .. (Len(s.used) - 1) :
     \E i \in 1 .. Len(s.store) :
       s.store[i] = f /\ ((b \div BITS) * BYTES_PER_BLOCK) \div BYTES_PER_PAGE = i - 1}

\* the bitmap after frame f has been filled with zeros
ZeroedStore(s, f) ==
  [i \in 1 .. Len(s.used) |-> IF (i - 1) \in StoreBits(s, f) THEN 0 ELSE s.used[i]]

\* table_create once find_free(1) has answered with frame; the new
\* table is zeroed through its page, whatever else its frame holds
TableCreateWith(s, page, frame) ==
  IF frame = None THEN Panic(s)
  ELSE LET s1 == MarkUsed(s, frame, 1)
           top == Xlate(s.mem, PAGE_TABLE)
           m1 == [s.mem EXCEPT ![top][L2Index(page)] = EntryMap(frame)]
           child == Xlate(m1, Table(m1, PAGE_TABLE, page))
       IN  IF s1.st # "ok" THEN s1
           ELSE [s1 EXCEPT !.mem = [m1 EXCEPT ![child] = ZeroTable],
                           !.used = ZeroedStore(s1, child),
                           !.created = s.created + 1]

\* PageTable::table_create on the top-level table
TableCreate(s, page) ==
  IF Table(s.mem, PAGE_TABLE, page) # None THEN s
  ELSE TableCreateWith(s, page, PmFindFree(s, 1))

RECURSIVE MapLoop(_, _, _, _)

\* one turn of the loop of map, after table_create: s1 is the state it
\* left, tf the frame of the leaf table
MapLeaf(s1, tf, page, frame, count) ==
  IF EntryUsed(s1.mem[tf][L1Index(page)]) THEN Panic(s1)
  ELSE MapLoop([s1 EXCEPT !.mem[tf][L1Index(page)] = EntryMap(frame)],
               page + 1, frame + 1, count - 1)

MapPage(s1, page, frame, count) ==
  IF s1.st # "ok" THEN s1
  ELSE MapLeaf(s1, Xlate(s1.mem, Table(s1.mem, PAGE_TABLE, page)), page, frame, count)

\* the loop of VirtualMemory::map over (page, frame) pairs
MapLoop(s, page, frame, count) ==
  IF count = 0 \/ s.st # "ok" THEN s
  ELSE MapPage(TableCreate(s, page), page, frame, count)

\* map once find_free has answered with ff
VmMapAt(s, ff, frame_start, count) ==
  IF ff.page = None THEN [s |-> s, page |-> None, skipped |-> ff.skipped]
  ELSE [s |-> MapLoop(s, ff.page, frame_start, count), page |-> ff.page,
        skipped |-> ff.skipped]

\* VirtualMemory::map: [s, page, skipped]
VmMap(s, hint, frame_start, count) ==
  VmMapAt(s, VmFindFree(s.mem, hint, count), frame_start, count)

\* allocate_contiguous once the frame allocator has answered with frame_start
VmAllocateFrames(s, hint, frame_start, count) ==
  IF frame_start = None
  THEN [s |-> s, page |-> None, skipped |-> {}]
  ELSE VmMap(MarkUsed(s, frame_start, count), hint, frame_start, count)

\* VirtualMemory::allocate_contiguous: [s, page, skipped]
VmAllocateContiguous(s, hint, count) ==
  VmAllocateFrames(s, hint, PmFindFree(s, count), count)

RECURSIVE VmFree(_, _, _)
\* one turn of the loop of free: tf is the frame of the leaf table
VmFreeLeaf(s, tf, page, count) ==
  IF ~EntryUsed(s.mem[tf][L1Index(page)]) THEN Panic(s)
  ELSE VmFree(MarkFree([s EXCEPT !.mem[tf][L1Index(page)] = 0],
                       EntryFrame(s.mem[tf][L1Index(page)]), 1),
              page + 1, count - 1)

VmFreePage(s, t, page, count) ==
  IF t = None THEN Panic(s) ELSE VmFreeLeaf(s, Xlate(s.mem, t), page, count)

\* VirtualMemory::free
VmFree(s, page, count) ==
  IF count = 0 \/ s.st # "ok" THEN s
  ELSE VmFreePage(s, Table(s.mem, PAGE_TABLE, page), page, count)

---------------------------------------------------------------------------
(* State.  pm is the allocator and the page tables; live the ranges        *)
(* returned by allocate and not yet freed; last what the last call did.    *)

VARIABLES pm, live, last, boot, calls, sch

vars == <<pm, live, last, boot, calls, sch>>

MappedPages(mem) == {p \in Pages : LeafUsed(mem, p)}

\* no scheduler has been created
NoScheduler == [st |-> "none"]

NoCall == [op |-> "none", page |-> None, count |-> 0, free0 |-> 0, created |-> 0,
           afterAllocate |-> FALSE]

\* the page tables the entry stub builds: PTL1 maps the low frames, PTL0
\* holds it at index 0 (identity) and at the kernel index, and itself at
\* the recursive index
StubMem ==
  [f \in Frames |->
     IF f = PTL1 THEN [i \in TableIdx |-> EntryMap(i)]
     ELSE IF f = PTL0
     THEN [i \in TableIdx |->
             IF i = RECURSIVE_INDEX THEN EntryMap(PTL0)
             ELSE IF i = 0 \/ i = KERNEL_INDEX THEN EntryMap(PTL1)
             ELSE 0]
     ELSE ZeroTable]

\* the static PHYS_MEM before any init: an empty bitmap, free = 0
\* (store: the frames that hold the words of the bitmap when they are heap
\* memory, store_page the first page of that allocation)
PhysMemEmpty ==
  [mem |-> StubMem, used |-> << >>, free |-> 0, st |-> "ok", created |-> 0,
   store |-> << >>, store_page |-> None]

\* init_virt_mem unmapping the entry at the recursive index instead of
\* the identity entry: a faulty variant the recursive-entry property
\* must be able to tell from init_virt_mem
InitVirtMemUnmapsRecursive(s) ==
  [s EXCEPT !.mem[Xlate(s.mem, PAGE_TABLE)][RECURSIVE_INDEX] = 0]

\* init_virt_mem: unmap the identity entry of the top-level table
InitVirtMemOp(s) ==
  [s EXCEPT !.mem[Xlate(s.mem, PAGE_TABLE)][L2Index(0)] = 0]

\* init_phys_mem_bare: the static bitmap, free = its size, the kernel's frames used
InitPhysMemBareOp(s) ==
  MarkUsed([s EXCEPT !.used = AllZeros(PHYS_MEM_BARE_SIZE \div BITS),
                     !.free = PHYS_MEM_BARE_SIZE],
           0, KERNEL_FRAMES)

\* what allocate returns: the page, or None (also when the call panicked)
AllocateRet(r) == IF r.s.st = "ok" THEN r.page ELSE None

AllocateDone(r, ret, count) ==
  /\ pm' = r.s
  /\ live' = IF ret = None THEN live ELSE live \cup {[page |-> ret, count |-> count]}
  /\ last' = [op |-> "allocate", page |-> ret, count |-> count,
              free0 |-> pm.free, created |-> r.s.created, afterAllocate |-> FALSE]

\* VirtualMemory::allocate(hint, count)
Allocate(hint, count) ==
  /\ pm.st = "ok"
  /\ boot \in {"bare", "e820"}
  /\ calls < MaxCalls
  /\ calls' = calls + 1
  /\ AllocateDone(VmAllocateContiguous([pm EXCEPT !.created = 0], hint, count),
                  AllocateRet(VmAllocateContiguous([pm EXCEPT !.created = 0], hint, count)),
                  count)
  /\ UNCHANGED <<boot, sch>>

\* VirtualMemory::free(page, count) of a live range
Free(a) ==
  /\ pm.st = "ok"
  /\ boot \in {"bare", "e820"}
  /\ calls < MaxCalls
  /\ calls' = calls + 1
  /\ a \in live
  /\ pm' = VmFree(pm, a.page, a.count)
  /\ live' = live \ {a}
  /\ last' = [op |-> "free", page |-> a.page, count |-> a.count,
              free0 |-> last.free0, created |-> last.created,
              afterAllocate |-> (last.op = "allocate" /\ last.page = a.page
                                 /\ last.count = a.count)]
  /\ UNCHANGED <<boot, sch>>

\* the state main() leaves after init_virt_mem and init_phys_mem_bare
InitVM ==
  /\ pm = InitPhysMemBareOp(InitVirtMemOp(PhysMemEmpty))
  /\ live = {}
  /\ last = NoCall
  /\ boot = "bare"
  /\ calls = 0
  /\ sch = NoScheduler

NextVM ==
  \/ \E hint \in Pages, count \in 1 .. MaxCount : Allocate(hint, count)
  \/ \E a \in live : Free(a)

SpecVM == InitVM /\ [][NextVM]_vars

---------------------------------------------------------------------------
\* The loop of VirtualMemory::find_free, one turn at a time.  sch holds the
\* call: its arguments, the two locals of the loop and what it returned.

\* the page tables the loop runs over: those of phase 1 and those left by
\* one or two calls of allocate
AfterAllocate(S) ==
  {VmAllocateContiguous(s, hint, count).s : s \in S, hint \in Pages, count \in 1 .. MaxCount}

ScanStates ==
  LET s0 == {InitPhysMemBareOp(InitVirtMemOp(PhysMemEmpty))}
      s1 == {s \in AfterAllocate(s0) : s.st = "ok"}
      s2 == {s \in AfterAllocate(s1) : s.st = "ok"}
  IN  s0 \cup s1 \cup s2

\* the hints: every page, the bound, and one past it
ScanHints == 0 .. (PAGES_TOTAL + 1)

InLoop == sch.st = "scan" /\ sch.pc = "loop"

ScanPage == sch.page_start + sch.consecutive_pages

\* a loop that starts again at the same page_start
AdvancedNowhere(page_start, consecutive_pages) == page_start

\* page_start += 1 + consecutive_pages
Advanced(page_start, consecutive_pages) == page_start + 1 + consecutive_pages

ScanKeeps == UNCHANGED <<pm, live, last, boot, calls>>

\* while consecutive_pages < count fails: Some(Page(page_start))
ScanReturnSome ==
  /\ InLoop
  /\ sch.consecutive_pages >= sch.count
  /\ sch' = [sch EXCEPT !.pc = "done", !.ret = sch.page_start]
  /\ ScanKeeps

\* not enough remaining pages: return None
ScanReturnNone ==
  /\ InLoop
  /\ sch.consecutive_pages < sch.count
  /\ sch.page_start + sch.count > PAGES_TOTAL
  /\ sch' = [sch EXCEPT !.pc = "done", !.ret = None]
  /\ ScanKeeps

ScanLooks ==
  /\ InLoop
  /\ sch.consecutive_pages < sch.count
  /\ sch.page_start + sch.count <= PAGES_TOTAL

\* page_table.table(page) is None: a whole table is counted
ScanSkipTable ==
  /\ ScanLooks
  /\ Table(pm.mem, PAGE_TABLE, ScanPage) = None
  /\ sch' = [sch EXCEPT !.consecutive_pages = @ + PAGES_PER_TABLE]
  /\ ScanKeeps

\* the entry of the page is not used: one more page is counted
ScanCountPage ==
  /\ ScanLooks
  /\ Table(pm.mem, PAGE_TABLE, ScanPage) # None
  /\ ~LeafUsed(pm.mem, ScanPage)
  /\ sch' = [sch EXCEPT !.consecutive_pages = @ + 1]
  /\ ScanKeeps

\* the entry of the page is used: the run starts again after it
ScanAdvance ==
  /\ ScanLooks
  /\ Table(pm.mem, PAGE_TABLE, ScanPage) # None
  /\ LeafUsed(pm.mem, ScanPage)
  /\ sch' = [sch EXCEPT !.page_start = Advanced(sch.page_start, sch.consecutive_pages),
                        !.consecutive_pages = 0]
  /\ ScanKeeps

\* find_free(hint, count) is entered: page_start = hint, consecutive_pages = 0
InitScan ==
  /\ pm \in ScanStates
  /\ live = {}
  /\ last = NoCall
  /\ boot = "scan"
  /\ calls = 0
  /\ \E hint \in ScanHints, count \in 1 .. MaxCount :
       sch = [st |-> "scan", pc |-> "loop", hint |-> hint, count |-> count,
              page_start |-> hint, consecutive_pages |-> 0, ret |-> None]

NextScan ==
  \/ ScanReturnSome
  \/ ScanReturnNone
  \/ ScanSkipTable
  \/ ScanCountPage
  \/ ScanAdvance

\* the loop is the only thing the calling thread does: it keeps taking turns
SpecScan == InitScan /\ [][NextScan]_vars /\ WF_vars(NextScan)

---------------------------------------------------------------------------
(* Boot: main() runs init_virt_mem, init_phys_mem_bare and                 *)
(* init_phys_mem_e820 (the functions of mm/mod.rs, which shadow the glob   *)
(* import of mm/pm.rs); the heap is usable from phase 1 on.                *)

MULTIBOOT_MEMORY_AVAILABLE == 1
MULTIBOOT_MEMORY_RESERVED == 2

DivCeil(a, b) == (a + b - 1) \div b

\* memory-map entries: byte address, byte length, type
MapAddrs == {0, 1, KERNEL_FRAMES * BYTES_PER_PAGE, PHYS_MEM_BARE_SIZE * BYTES_PER_PAGE}
MapLens == {1, BYTES_PER_PAGE} \cup
           {k * KERNEL_FRAMES * BYTES_PER_PAGE : k \in 1 .. (MaxTopFrame \div KERNEL_FRAMES)}
MapEntries ==
  {e \in [addr : MapAddrs, len : MapLens,
          type : {MULTIBOOT_MEMORY_AVAILABLE, MULTIBOOT_MEMORY_RESERVED}] :
     e.addr + e.len <= MaxTopFrame * BYTES_PER_PAGE}
MemoryMaps(n) == [1 .. n -> MapEntries]

\* the loop of init_phys_mem_e820 over the map, from entry i on
RECURSIVE E820MarkFree(_, _, _)

E820MarkFree(s, phys_mem_map, i) ==
  IF i > Len(phys_mem_map) \/ s.st # "ok" THEN s
  ELSE LET phys_mem_entry == phys_mem_map[i]
           frame_start == phys_mem_entry.addr \div BYTES_PER_PAGE
           frames == phys_mem_entry.len \div BYTES_PER_PAGE
       IN  IF phys_mem_entry.type # MULTIBOOT_MEMORY_AVAILABLE \/ frames = 0
           THEN E820MarkFree(s, phys_mem_map, i + 1)
           ELSE E820MarkFree(MarkFree(s, frame_start, frames), phys_mem_map, i + 1)

\* the last statement of init_phys_mem_e820: mark_used(0, 1024), whose
\* `free -= count` traps on underflow in a build with overflow checks
E820MarkUsed(s, overflow_checks) ==
  IF s.st # "ok" THEN s
  ELSE IF overflow_checks /\ s.free < KERNEL_FRAMES /\ MasksOk(s.used, 0, KERNEL_FRAMES)
  THEN Panic(s)
  ELSE MarkUsed(s, 0, KERNEL_FRAMES)

\* `*phys_mem = phys_mem_new` and what follows it.  Dropping the replaced
\* PhysicalMemory either hands its bitmap storage to the heap, whose free
\* spins on the lock this function holds, or leaves it alone.
E820Replace(s, page, pages, phys_mem_map, nwords, drop_releases, overflow_checks) ==
  [s |-> IF drop_releases /\ Len(s.used) > 0 THEN [s EXCEPT !.st = "hang"]
         ELSE E820MarkUsed(E820MarkFree([s EXCEPT !.used = AllOnes(nwords), !.free = 0,
                                                  !.store = [i \in 1 .. pages |->
                                                               Xlate(s.mem, page + i - 1)],
                                                  !.store_page = page],
                                        phys_mem_map, 1),
                           overflow_checks),
   page |-> page, count |-> pages, used0 |-> s.used]

\* the vec! of the new bitmap: a heap allocation unless it is empty
E820Alloc(s, pages) ==
  IF pages = 0 THEN [s |-> s, page |-> None]
  ELSE VmAllocateContiguous(s, KERNEL_VMA_PAGE, pages)

E820AfterAlloc(a, pages, phys_mem_map, nwords, drop_releases, overflow_checks) ==
  IF a.s.st # "ok" \/ (pages > 0 /\ a.page = None)
  THEN [s |-> Panic(a.s), page |-> None, count |-> 0, used0 |-> a.s.used]
  ELSE E820Replace(a.s, a.page, pages, phys_mem_map, nwords, drop_releases,
                   overflow_checks)

E820Sized(s, pages, phys_mem_map, nwords, drop_releases, overflow_checks) ==
  E820AfterAlloc(E820Alloc(s, pages), pages, phys_mem_map, nwords, drop_releases,
                 overflow_checks)

\* phys_mem_max of init_phys_mem_e820, over the available entries
PhysMemMax(phys_mem_map) ==
  Max({(phys_mem_map[i].addr + phys_mem_map[i].len) \div BYTES_PER_PAGE :
         i \in {j \in 1 .. Len(phys_mem_map) :
                  phys_mem_map[j].type = MULTIBOOT_MEMORY_AVAILABLE}})

\* init_phys_mem_e820 of mm/mod.rs: [s, page, count, used0], the state,
\* the allocation of the new bitmap, and the bitmap as it was replaced.
\* drop_releases and overflow_checks are what the build decides.
InitPhysMemE820Op(s, phys_mem_map, drop_releases, overflow_checks) ==
  IF \A i \in 1 .. Len(phys_mem_map) : phys_mem_map[i].type # MULTIBOOT_MEMORY_AVAILABLE
  THEN [s |-> Panic(s), page |-> None, count |-> 0, used0 |-> s.used]
  ELSE E820Sized(s, DivCeil(DivCeil(PhysMemMax(phys_mem_map), BITS) * BYTES_PER_BLOCK,
                            BYTES_PER_PAGE),
                 phys_mem_map, DivCeil(PhysMemMax(phys_mem_map), BITS),
                 drop_releases, overflow_checks)

InitVirtMem ==
  /\ boot = "stub"
  /\ boot' = "virt"
  /\ pm' = InitVirtMemOp(pm)
  /\ UNCHANGED <<live, last, calls, sch>>

InitPhysMemBare ==
  /\ boot = "virt"
  /\ boot' = "bare"
  /\ pm' = InitPhysMemBareOp(pm)
  /\ UNCHANGED <<live, last, calls, sch>>

E820Done(r) ==
  /\ pm' = r.s
  /\ live' = IF r.page = None THEN live
             ELSE live \cup {[page |-> r.page, count |-> r.count]}
  /\ last' = [op |-> "e820", page |-> r.page, count |-> r.count,
              free0 |-> pm.free, created |-> r.s.created,
              afterAllocate |-> FALSE, used0 |-> r.used0]

InitPhysMemE820(phys_mem_map, drop_releases, overflow_checks) ==
  /\ boot = "bare"
  /\ pm.st = "ok"
  /\ boot' = "e820"
  /\ E820Done(InitPhysMemE820Op([pm EXCEPT !.created = 0], phys_mem_map,
                                drop_releases, overflow_checks))
  /\ UNCHANGED <<calls, sch>>

InitBoot ==
  /\ pm = PhysMemEmpty
  /\ live = {}
  /\ last = NoCall
  /\ boot = "stub"
  /\ calls = 0
  /\ sch = NoScheduler

NextBoot ==
  \/ InitVirtMem
  \/ InitPhysMemBare
  \/ \E n \in 1 .. MaxEntries :
       \E phys_mem_map \in MemoryMaps(n), drop_releases \in BOOLEAN, overflow_checks \in BOOLEAN :
         InitPhysMemE820(phys_mem_map, drop_releases, overflow_checks)
  \/ \E hint \in {0, KERNEL_VMA_PAGE}, count \in 1 .. MaxCount : Allocate(hint, count)
  \/ \E a \in {x \in live : x.page # pm.store_page} : Free(a)

SpecBoot == InitBoot /\ [][NextBoot]_vars

---------------------------------------------------------------------------
(* Phase 2 over memory maps whose entries need not start at a page         *)
(* boundary: the boot sequence up to init_phys_mem_e820, the map kept in   *)
(* sch.map.                                                                *)

UnalignedAddrs == MapAddrs \cup {KERNEL_FRAMES * BYTES_PER_PAGE + 1}
UnalignedEntries ==
  {e \in [addr : UnalignedAddrs, len : MapLens,
          type : {MULTIBOOT_MEMORY_AVAILABLE, MULTIBOOT_MEMORY_RESERVED}] :
     e.addr + e.len <= MaxTopFrame * BYTES_PER_PAGE}
UnalignedMaps(n) == [1 .. n -> UnalignedEntries]

\* init_phys_mem_e820(phys_mem_map), called by main
InitPhysMemE820Of(phys_mem_map, drop_releases, overflow_checks) ==
  /\ boot = "bare"
  /\ pm.st = "ok"
  /\ boot' = "e820"
  /\ E820Done(InitPhysMemE820Op([pm EXCEPT !.created = 0], phys_mem_map,
                                drop_releases, overflow_checks))
  /\ sch' = [st |-> "map", map |-> phys_mem_map]
  /\ UNCHANGED calls

NextMaps ==
  \/ InitVirtMem
  \/ InitPhysMemBare
  \/ \E n \in 1 .. MaxEntries :
       \E phys_mem_map \in UnalignedMaps(n), drop_releases \in BOOLEAN, overflow_checks \in BOOLEAN :
         InitPhysMemE820Of(phys_mem_map, drop_releases, overflow_checks)

SpecMaps == InitBoot /\ [][NextMaps]_vars

---------------------------------------------------------------------------
(* The heap: VirtualMemory as the global allocator.  A pointer is a byte   *)
(* address; a layout is its size in bytes.                                 *)

\* ptr::null_mut()
NULL == 0

\* Page::ptr on x86, and the page of a pointer as dealloc computes it
PagePtr(page) == page * BYTES_PER_PAGE
PtrPage(virt_addr) == virt_addr \div BYTES_PER_PAGE

\* layout.size().div_ceil(BYTES_PER_PAGE)
LayoutPages(size) == DivCeil(size, BYTES_PER_PAGE)

\* the pages outside the recursive window whose leaf entry is in use
LeafPages(mem) == {p \in Pages : L2Index(p) # RECURSIVE_INDEX /\ LeafUsed(mem, p)}

\* what alloc returns: map_or(null, page.ptr())
AllocPtr(r) == IF r.s.st # "ok" \/ r.page = None THEN NULL ELSE PagePtr(r.page)

\* alloc that hands back a pointer although allocate returned None: a
\* faulty variant the exhaustion property must be able to tell from alloc
AllocOpNeverNull(s, size) ==
  VmAllocateFrames(s, KERNEL_VMA_PAGE,
                   IF PmFindFree(s, LayoutPages(size)) = None THEN KERNEL_FRAMES
                   ELSE PmFindFree(s, LayoutPages(size)),
                   LayoutPages(size))

\* GlobalAlloc::alloc up to the result of allocate: [s, page, skipped]
AllocOp(s, size) == VmAllocateContiguous(s, KERNEL_VMA_PAGE, LayoutPages(size))

AllocDone(r, ptr, size) ==
  /\ pm' = r.s
  /\ live' = IF ptr = NULL THEN live
             ELSE live \cup {[page |-> r.page, count |-> LayoutPages(size)]}
  /\ last' = [op |-> "alloc", page |-> AllocateRet(r), count |-> LayoutPages(size),
              free0 |-> pm.free, created |-> r.s.created, afterAllocate |-> FALSE,
              ptr |-> ptr, size |-> size, leaf0 |-> LeafPages(pm.mem)]

\* GlobalAlloc::alloc(layout)
Alloc(size) ==
  /\ pm.st = "ok"
  /\ boot \in {"bare", "e820"}
  /\ calls < MaxCalls
  /\ calls' = calls + 1
  /\ AllocDone(AllocOp([pm EXCEPT !.created = 0], size),
               AllocPtr(AllocOp([pm EXCEPT !.created = 0], size)), size)
  /\ UNCHANGED <<boot, sch>>

\* the frames behind the pages of a range, as the leaf entries name them
RangeFrames(mem, page, count) ==
  {Xlate(mem, p) : p \in {q \in page .. (page + count - 1) : Xlate(mem, q) # None}}

\* GlobalAlloc::dealloc(virt_addr, layout) of a live block
Dealloc(a, size) ==
  /\ pm.st = "ok"
  /\ boot \in {"bare", "e820"}
  /\ calls < MaxCalls
  /\ calls' = calls + 1
  /\ a \in live
  /\ LayoutPages(size) = a.count
  /\ pm' = VmFree(pm, PtrPage(PagePtr(a.page)), LayoutPages(size))
  /\ live' = live \ {a}
  /\ last' = [op |-> "dealloc", page |-> PtrPage(PagePtr(a.page)),
              count |-> LayoutPages(size),
              free0 |-> last.free0, created |-> last.created, afterAllocate |-> FALSE,
              ptr |-> PagePtr(a.page), size |-> size,
              afterAlloc |-> (last.op = "alloc" /\ last.ptr = PagePtr(a.page)
                              /\ last.size = size),
              leaf0 |-> IF last.op = "alloc" THEN last.leaf0 ELSE {},
              frames |-> RangeFrames(pm.mem, a.page, a.count),
              used1 |-> pm.used, free1 |-> pm.free]
  /\ UNCHANGED <<boot, sch>>

\* boot as main() runs it, then the heap in use through alloc and dealloc
NextHeap ==
  \/ InitVirtMem
  \/ InitPhysMemBare
  \/ \E phys_mem_map \in MemoryMaps(1), drop_releases \in BOOLEAN,
        overflow_checks \in BOOLEAN :
       InitPhysMemE820(phys_mem_map, drop_releases, overflow_checks)
  \/ \E size \in 1 .. MaxSize : Alloc(size)
  \/ \E a \in {x \in live : x.page # pm.store_page}, size \in 1 .. MaxSize : Dealloc(a, size)

SpecHeap == InitBoot /\ [][NextHeap]_vars

---------------------------------------------------------------------------
(* main(): sch holds what the boot loader passed (the magic, the flags of  *)
(* the info structure, the memory map), what the build decides, and the    *)
(* lines logged so far; boot is the place main has reached.                *)

MULTIBOOT_BOOTLOADER_MAGIC == 732803074
MULTIBOOT_INFO_MEM_MAP == 64

Magics == {MULTIBOOT_BOOTLOADER_MAGIC, 0}
InfoFlags == {0, 1, MULTIBOOT_INFO_MEM_MAP, MULTIBOOT_INFO_MEM_MAP + 1}

\* flags & MULTIBOOT_INFO_MEM_MAP
MemMapBit(flags) == ((flags \div MULTIBOOT_INFO_MEM_MAP) % 2) * MULTIBOOT_INFO_MEM_MAP

InMain == sch.st = "main" /\ UNCHANGED <<live, last, calls>>

\* main: mm::sm::init() and int::init()
MainSetup ==
  /\ InMain /\ boot = "main"
  /\ boot' = "setup"
  /\ UNCHANGED <<pm, sch>>

\* the test of the magic that lets every magic pass: a faulty variant
\* the halt property must be able to tell from the test of main
MagicAlwaysOk(multiboot_magic) == TRUE

\* main: multiboot_magic != MULTIBOOT_BOOTLOADER_MAGIC
MagicOk(multiboot_magic) == multiboot_magic = MULTIBOOT_BOOTLOADER_MAGIC

\* main: the test of the magic, halt() when it fails
MainCheckMagic ==
  /\ InMain /\ boot = "setup"
  /\ boot' = IF MagicOk(sch.magic) THEN "magic_ok" ELSE "halt"
  /\ UNCHANGED <<pm, sch>>

\* main: the test of the memory-map flag, halt() when it fails
MainCheckFlags ==
  /\ InMain /\ boot = "magic_ok"
  /\ boot' = IF MemMapBit(sch.flags) = 0 THEN "halt" ELSE "stub"
  /\ UNCHANGED <<pm, sch>>

\* main: mm::init_virt_mem()
MainInitVirtMem ==
  /\ InMain /\ boot = "stub"
  /\ boot' = "virt"
  /\ pm' = InitVirtMemOp(pm)
  /\ UNCHANGED sch

\* main: mm::init_phys_mem_bare()
MainInitPhysMemBare ==
  /\ InMain /\ boot = "virt"
  /\ boot' = "bare"
  /\ pm' = InitPhysMemBareOp(pm)
  /\ UNCHANGED sch

\* main: mm::init_phys_mem_e820(the memory map)
MainInitPhysMemE820 ==
  /\ InMain /\ boot = "bare"
  /\ boot' = "e820"
  /\ pm' = InitPhysMemE820Op([pm EXCEPT !.created = 0], sch.map, sch.drop_releases,
                             sch.overflow_checks).s
  /\ UNCHANGED sch

\* main: tty::init_logging(), reached when phase 2 has returned
MainInitLogging ==
  /\ InMain /\ boot = "e820" /\ pm.st = "ok"
  /\ boot' = "logging"
  /\ UNCHANGED <<pm, sch>>

\* main: info!("Meerkat Operating System ..")
MainBanner ==
  /\ InMain /\ boot = "logging"
  /\ boot' = "banner"
  /\ sch' = [sch EXCEPT !.out = Append(@, "banner")]
  /\ UNCHANGED pm

\* main: halt() after the banner
MainHalt ==
  /\ InMain /\ boot = "banner"
  /\ boot' = "halt"
  /\ UNCHANGED <<pm, sch>>

InitMain ==
  /\ pm = PhysMemEmpty
  /\ live = {}
  /\ last = NoCall
  /\ boot = "main"
  /\ calls = 0
  /\ \E magic \in Magics, flags \in InfoFlags, map \in MemoryMaps(1),
        drop_releases \in BOOLEAN, overflow_checks \in BOOLEAN :
       sch = [st |-> "main", magic |-> magic, flags |-> flags, map |-> map,
              drop_releases |-> drop_releases, overflow_checks |-> overflow_checks,
              out |-> << >>]

NextMain ==
  \/ MainSetup \/ MainCheckMagic \/ MainCheckFlags \/ MainInitVirtMem
  \/ MainInitPhysMemBare \/ MainInitPhysMemE820 \/ MainInitLogging
  \/ MainBanner \/ MainHalt

MainPlaces ==
  {"main", "setup", "magic_ok", "stub", "virt", "bare", "e820", "logging", "banner",
   "halt"}

\* main has a next statement to execute: it is not in halt(), and phase 2
\* has not panicked or hung
MainCanStep ==
  \/ boot \in {"main", "setup", "magic_ok", "stub", "virt", "bare", "logging", "banner"}
  \/ boot = "e820" /\ pm.st = "ok"

\* a step of main, seen as a change of the place it has reached
MainRuns == sch.st = "main" /\ MainCanStep /\ boot' \in MainPlaces

\* main runs on: no statement of it waits for anything
SpecMain == InitMain /\ [][NextMain]_vars /\ WF_boot(MainRuns)

---------------------------------------------------------------------------
(* PhysicalMemory::find_free as a function of the allocator's fields: any  *)
(* bitmap of up to MaxWords words, with the stored count equal to or       *)
(* different from its number of zero bits.                                 *)

Bitmaps == UNION {[1 .. (n * BITS) -> {0, 1}] : n \in 1 .. MaxWords}

FreeCounts(bm) == {0, ZeroCount(bm), Len(bm)}

\* find_free(count) on the allocator as it stands
FindFreeCall(count) ==
  /\ boot = "find_free"
  /\ last' = [op |-> "find_free", page |-> PmFindFree(pm, count), count |-> count,
              free0 |-> pm.free, created |-> 0, afterAllocate |-> FALSE]
  /\ UNCHANGED <<pm, live, boot, calls, sch>>

InitFindFree ==
  /\ \E bm \in Bitmaps : \E free \in FreeCounts(bm) :
       pm = [PhysMemEmpty EXCEPT !.used = bm, !.free = free]
  /\ live = {}
  /\ last = NoCall
  /\ boot = "find_free"
  /\ calls = 0
  /\ sch = NoScheduler

NextFindFree == \E count \in 1 .. (MaxWords * BITS + 1) : FindFreeCall(count)

SpecFindFree == InitFindFree /\ [][NextFindFree]_vars

---------------------------------------------------------------------------
(* Bitmap::consecutive_zeros as an iterator over any bitmap of up to        *)
(* MaxWords words: last holds the iterator, the ranges it has yielded and  *)
(* whether it has answered None.                                           *)

AnyBitmaps == UNION {[1 .. (n * BITS) -> {0, 1}] : n \in 0 .. MaxWords}

\* consecutive_zeros(fits): `self.0[0]` is an index out of bounds on a
\* bitmap of no words
ConsecutiveZerosCall(fits) ==
  /\ boot = "bitmap"
  /\ boot' = IF NWords(pm.used) = 0 THEN "panic" ELSE "zeros"
  /\ last' = [op |-> "consecutive_zeros", page |-> None, count |-> fits,
              free0 |-> 0, created |-> 0, afterAllocate |-> FALSE,
              it |-> ConsecutiveZeros(pm.used), ranges |-> << >>, done |-> FALSE]
  /\ UNCHANGED <<pm, live, calls, sch>>

ZerosYield(r) ==
  last' = [last EXCEPT !.it = r.it,
                       !.ranges = IF r.some THEN Append(@, <<r.start, r.end>>) ELSE @,
                       !.done = ~r.some]

\* ConsecutiveZeros::next
ZerosNext ==
  /\ boot = "zeros"
  /\ ~last.done
  /\ ZerosYield(CZNext(pm.used, last.it, last.count))
  /\ UNCHANGED <<pm, live, boot, calls, sch>>

InitZeros ==
  /\ \E bm \in AnyBitmaps : pm = [PhysMemEmpty EXCEPT !.used = bm]
  /\ live = {}
  /\ last = NoCall
  /\ boot = "bitmap"
  /\ calls = 0
  /\ sch = NoScheduler

NextZeros ==
  \/ \E fits \in 1 .. (MaxWords * BITS + 1) : ConsecutiveZerosCall(fits)
  \/ ZerosNext

SpecZeros == InitZeros /\ [][NextZeros]_vars

---------------------------------------------------------------------------
(* Bitmap::set_ones and Bitmap::set_zeros on any bitmap of 1 .. MaxWords   *)
(* words and any range start .. end: last holds the range and the bitmap   *)
(* as it was before the first call.                                        *)

\* the ranges followed: those within capacity, and from bit 0 the empty
\* range and the range one bit past capacity
RangeFollowed(start, end) ==
  /\ end <= Len(pm.used) + 1
  /\ start = 0 \/ (end > start /\ end <= Len(pm.used))

SetCall(op, start, end, used, place) ==
  /\ RangeFollowed(start, end)
  /\ boot' = IF MasksOk(pm.used, start, end) THEN place ELSE "panic"
  /\ pm' = IF MasksOk(pm.used, start, end) THEN [pm EXCEPT !.used = used] ELSE Panic(pm)
  /\ last' = [op |-> op, page |-> None, count |-> end - start,
              free0 |-> 0, created |-> 0, afterAllocate |-> FALSE,
              start |-> start, end |-> end,
              used0 |-> IF boot = "bitmap" THEN pm.used ELSE last.used0]
  /\ UNCHANGED <<live, calls, sch>>

\* set_ones(start .. end)
SetOnesCall(start, end) ==
  /\ boot = "bitmap"
  /\ SetCall("set_ones", start, end, SetOnes(pm.used, start, end), "ones")

\* set_zeros(start .. end)
SetZerosCall(start, end) ==
  /\ boot = "bitmap"
  /\ SetCall("set_zeros", start, end, SetZeros(pm.used, start, end), "zeros")

\* set_zeros of the range set_ones has just been called with
SetZerosAfterOnes ==
  /\ boot = "ones"
  /\ SetCall("set_zeros", last.start, last.end, SetZeros(pm.used, last.start, last.end),
             "round")

InitMasks ==
  /\ \E bm \in Bitmaps : pm = [PhysMemEmpty EXCEPT !.used = bm]
  /\ live = {}
  /\ last = NoCall
  /\ boot = "bitmap"
  /\ calls = 0
  /\ sch = NoScheduler

NextMasks ==
  \/ \E start \in 0 .. (MaxWords * BITS) : \E end \in start .. (MaxWords * BITS + 1) :
       SetOnesCall(start, end)
  \/ \E start \in 0 .. (MaxWords * BITS) : \E end \in start .. (MaxWords * BITS + 1) :
       SetZerosCall(start, end)
  \/ SetZerosAfterOnes

SpecMasks == InitMasks /\ [][NextMasks]_vars

---------------------------------------------------------------------------
(* PageTable::table as address arithmetic, on x86 (two levels) and x86-64  *)
(* (four levels, addresses sign-extended).  A word of w bits is a number   *)
(* below 2^w.  sch holds the table the walk stands on (its address and     *)
(* level) and what the last call of table returned.                        *)

Archs == {"x86", "x86_64"}
Levels(arch) == IF arch = "x86" THEN 2 ELSE 4
\* bits of a virtual address and of a usize
AddrBits(arch) == OffsetBits + Levels(arch) * EntryBits
WordBits(arch) == IF arch = "x86" THEN AddrBits(arch) ELSE AddrBits(arch) + SignBits
Indices == 0 .. (2 ^ EntryBits - 1)
\* the recursive index: 0x3FF on x86, 0o776 on x86-64
RecursiveIndex(arch) == IF arch = "x86" THEN 2 ^ EntryBits - 1 ELSE 2 ^ EntryBits - 2

RECURSIVE BitOr(_, _)
\* a | b
BitOr(a, b) ==
  IF a = 0 THEN b ELSE IF b = 0 THEN a
  ELSE (IF a % 2 = 1 \/ b % 2 = 1 THEN 1 ELSE 0) + 2 * BitOr(a \div 2, b \div 2)

\* a shift right that takes the word as unsigned
AShrUnsigned(x, n, w) == x \div 2 ^ n

\* x << n and x >> n on a usize of w bits, x as i64 >> n
Shl(x, n, w) == (x * 2 ^ n) % 2 ^ w
LShr(x, n, w) == x \div 2 ^ n
AShr(x, n, w) ==
  IF x >= 2 ^ (w - 1) THEN (x \div 2 ^ n) + (2 ^ w - 2 ^ (w - n)) ELSE x \div 2 ^ n

\* Page::ptr
PtrOfPage(arch, page) ==
  IF arch = "x86" THEN page * 2 ^ OffsetBits
  ELSE AShr(Shl(page * 2 ^ OffsetBits, SignBits, WordBits(arch)), SignBits, WordBits(arch))

\* PAGE_TABLE: 0xFFFFF000, 0o177_777_776_776_776_776_0000
RECURSIVE RecursivePage(_, _)
RecursivePage(arch, levels) ==
  IF levels = 0 THEN 0
  ELSE RecursivePage(arch, levels - 1) * 2 ^ EntryBits + RecursiveIndex(arch)
PageTableAddr(arch) == PtrOfPage(arch, RecursivePage(arch, Levels(arch)))

\* PageTable::table of krnl: Page(((addr << 10) >> 12) | index).ptr(), None
\* when the entry is not in use
TableOf(arch, addr, index, used) ==
  IF ~used THEN None
  ELSE PtrOfPage(arch, BitOr(LShr(Shl(addr, EntryBits, WordBits(arch)), OffsetBits,
                                  WordBits(arch)),
                             index))

\* PageTable::table of kernel: addr << 10 | index << 12, sign-extended on x86-64
TableOfKernel(arch, addr, index, used) ==
  IF ~used THEN None
  ELSE IF arch = "x86"
  THEN BitOr(Shl(addr, EntryBits, WordBits(arch)), Shl(index, OffsetBits, WordBits(arch)))
  ELSE AShr(Shl(BitOr(Shl(addr, EntryBits, WordBits(arch)),
                      Shl(index, OffsetBits, WordBits(arch))),
                SignBits, WordBits(arch)),
            SignBits, WordBits(arch))

\* table(page) on the table the walk stands on, with index = L::index(page);
\* the walk goes down when a table is returned
TableCall(index, used) ==
  /\ sch.st = "table"
  /\ sch.level > 1
  /\ sch' = [sch EXCEPT
               !.index = index,
               !.from = sch.addr,
               !.ret = TableOf(sch.arch, sch.addr, index, used),
               !.retKernel = TableOfKernel(sch.arch, sch.addr, index, used),
               !.addr = IF used THEN TableOf(sch.arch, sch.addr, index, used) ELSE @,
               !.level = IF used THEN @ - 1 ELSE @,
               !.path = IF used THEN Append(@, index) ELSE @]
  /\ UNCHANGED <<pm, live, last, boot, calls>>

InitTable ==
  /\ pm = PhysMemEmpty
  /\ live = {}
  /\ last = NoCall
  /\ boot = "table"
  /\ calls = 0
  /\ \E arch \in Archs :
       sch = [st |-> "table", arch |-> arch, level |-> Levels(arch),
              addr |-> PageTableAddr(arch), from |-> None, index |-> None,
              ret |-> None, retKernel |-> None, path |-> << >>]

NextTable == \E index \in Indices, used \in BOOLEAN : TableCall(index, used)

SpecTable == InitTable /\ [][NextTable]_vars

---------------------------------------------------------------------------
(* allocate called by two runnables under timer preemption.  IRQ0 may      *)
(* switch from one runnable to the other between any two steps; the steps  *)
(* that run under the lock of the frame allocator are one step each.       *)
(* sch.t[k] is runnable k's position in allocate_contiguous, map and       *)
(* table_create with its local variables, sch.wrote the page-table         *)
(* entries written so far with their writer, sch.clobber whether an entry  *)
(* written by one runnable was overwritten by the other.                   *)

Runnables == {1, 2}

IdleCall == [pc |-> "idle", hint |-> None, count |-> 0, frame_start |-> None,
             page_start |-> None, i |-> 0, tframe |-> None, ret |-> None]

\* the page the loop of map is at
RacePage(c) == c.page_start + c.i

\* the entries of wrote that a write of k to the entries idxs of the table
\* in frame tf replaces
Overwritten(s, k, tf, idxs) ==
  {w \in s.wrote : w.tf = tf /\ w.idx \in idxs /\ w.k # k}

\* runnable k writes the entries idxs of the table in frame tf
Wrote(s, k, tf, idxs) ==
  [s EXCEPT !.wrote = {w \in @ : ~(w.tf = tf /\ w.idx \in idxs)} \cup
                      {[tf |-> tf, idx |-> i, k |-> k] : i \in idxs},
            !.clobber = @ \/ Overwritten(s, k, tf, idxs) # {}]

RaceStep(k, pc) ==
  /\ boot = "race" /\ pm.st = "ok" /\ sch.t[k].pc = pc
  /\ UNCHANGED <<live, last, boot, calls>>

\* the call allocate(hint, count)
RaceCall(k, hint, count) ==
  /\ RaceStep(k, "idle")
  /\ sch' = [sch EXCEPT !.t[k] = [IdleCall EXCEPT !.pc = "frames", !.hint = hint,
                                                  !.count = count]]
  /\ pm' = pm

\* allocate_contiguous: find_free and mark_used under the lock
RaceTakeFrames(k) ==
  /\ RaceStep(k, "frames")
  /\ IF PmFindFree(pm, sch.t[k].count) = None
     THEN /\ sch' = [sch EXCEPT !.t[k].pc = "done"]
          /\ pm' = pm
     ELSE /\ sch' = [sch EXCEPT !.t[k].pc = "find",
                                !.t[k].frame_start = PmFindFree(pm, sch.t[k].count)]
          /\ pm' = MarkUsed(pm, PmFindFree(pm, sch.t[k].count), sch.t[k].count)

\* map: find_free(page_start, count)?
RaceFindPages(k) ==
  /\ RaceStep(k, "find")
  /\ sch' = IF VmFindFree(pm.mem, sch.t[k].hint, sch.t[k].count).page = None
            THEN [sch EXCEPT !.t[k].pc = "done"]
            ELSE [sch EXCEPT !.t[k].pc = "table",
                             !.t[k].page_start =
                                VmFindFree(pm.mem, sch.t[k].hint, sch.t[k].count).page]
  /\ pm' = pm

\* table_create: `if self.table(page).is_none()`
RaceTableCheck(k) ==
  /\ RaceStep(k, "table")
  /\ sch' = [sch EXCEPT !.t[k].pc = IF Table(pm.mem, PAGE_TABLE, RacePage(sch.t[k])) = None
                                    THEN "take" ELSE "leaf"]
  /\ pm' = pm

\* table_create: find_free(1).unwrap() and mark_used under the lock
RaceTableTake(k) ==
  /\ RaceStep(k, "take")
  /\ IF PmFindFree(pm, 1) = None
     THEN /\ pm' = Panic(pm)
          /\ sch' = [sch EXCEPT !.why = "unwrap"]
     ELSE /\ pm' = MarkUsed(pm, PmFindFree(pm, 1), 1)
          /\ sch' = [sch EXCEPT !.t[k].pc = "install", !.t[k].tframe = PmFindFree(pm, 1)]

\* table_create: self.entries[L::index(page)].map(frame)
RaceTableInstall(k) ==
  /\ RaceStep(k, "install")
  /\ pm' = [pm EXCEPT !.mem[Xlate(pm.mem, PAGE_TABLE)][L2Index(RacePage(sch.t[k]))] =
                         EntryMap(sch.t[k].tframe)]
  /\ sch' = [Wrote(sch, k, Xlate(pm.mem, PAGE_TABLE), {L2Index(RacePage(sch.t[k]))})
               EXCEPT !.t[k].pc = "zero"]

\* table_create: the new table, reached through the entry as it is now,
\* is filled with free entries
RaceTableZero(k) ==
  /\ RaceStep(k, "zero")
  /\ pm' = [pm EXCEPT !.mem[Xlate(pm.mem, Table(pm.mem, PAGE_TABLE, RacePage(sch.t[k])))] =
                         ZeroTable]
  /\ sch' = [Wrote(sch, k, Xlate(pm.mem, Table(pm.mem, PAGE_TABLE, RacePage(sch.t[k]))),
                   TableIdx)
               EXCEPT !.t[k].pc = "leaf"]

\* map: `if page_table_entry.used() { panic!("non-contiguous") }`
RaceLeafCheck(k) ==
  /\ RaceStep(k, "leaf")
  /\ IF LeafUsed(pm.mem, RacePage(sch.t[k]))
     THEN /\ pm' = Panic(pm)
          /\ sch' = [sch EXCEPT !.why = "non-contiguous"]
     ELSE /\ pm' = pm
          /\ sch' = [sch EXCEPT !.t[k].pc = "write"]

\* map: page_table_entry.map(frame), and the next turn of the loop or
\* the return of allocate
RaceLeafWrite(k) ==
  /\ RaceStep(k, "write")
  /\ Table(pm.mem, PAGE_TABLE, RacePage(sch.t[k])) # None
  /\ pm' = [pm EXCEPT !.mem[Xlate(pm.mem, Table(pm.mem, PAGE_TABLE, RacePage(sch.t[k])))]
                            [L1Index(RacePage(sch.t[k]))] =
                         EntryMap(sch.t[k].frame_start + sch.t[k].i)]
  /\ sch' = [Wrote(sch, k, Xlate(pm.mem, Table(pm.mem, PAGE_TABLE, RacePage(sch.t[k]))),
                   {L1Index(RacePage(sch.t[k]))})
               EXCEPT !.t[k].i = @ + 1,
                      !.t[k].pc = IF sch.t[k].i + 1 = sch.t[k].count THEN "done" ELSE "table",
                      !.t[k].ret = IF sch.t[k].i + 1 = sch.t[k].count
                                   THEN sch.t[k].page_start ELSE None]

InitRace ==
  /\ pm = InitPhysMemBareOp(InitVirtMemOp(PhysMemEmpty))
  /\ live = {}
  /\ last = NoCall
  /\ boot = "race"
  /\ calls = 0
  /\ sch = [st |-> "race", t |-> [k \in Runnables |-> IdleCall], wrote |-> {},
            clobber |-> FALSE, why |-> ""]

NextRace ==
  \/ \E k \in Runnables, hint \in {0, KERNEL_VMA_PAGE}, count \in 1 .. MaxCount :
       RaceCall(k, hint, count)
  \/ \E k \in Runnables : RaceTakeFrames(k)
  \/ \E k \in Runnables : RaceFindPages(k)
  \/ \E k \in Runnables : RaceTableCheck(k)
  \/ \E k \in Runnables : RaceTableTake(k)
  \/ \E k \in Runnables : RaceTableInstall(k)
  \/ \E k \in Runnables : RaceTableZero(k)
  \/ \E k \in Runnables : RaceLeafCheck(k)
  \/ \E k \in Runnables : RaceLeafWrite(k)

SpecRace == InitRace /\ [][NextRace]_vars

---------------------------------------------------------------------------
(* One page-table entry (mm/pg.rs): the entry starts as table_create's     *)
(* fill leaves it, and map and unmap are called on it with every frame     *)
(* number a usize of EntryWidth bits can hold.                             *)

FrameWords == 0 .. (2 ^ EntryWidth - 1)

\* the frame numbers that fit the frame field of an entry
FitsEntry(frame) == frame * 4 < 2 ^ EntryWidth

ZeroedEntry == [st |-> "entry", op |-> "zeroed", word |-> 0, frame |-> None, ret |-> None]

\* entry.map(frame)
EntryMapCall(frame) ==
  /\ boot = "entry"
  /\ sch' = [sch EXCEPT !.op = "map", !.word = EntryMap(frame), !.frame = frame,
                        !.ret = None]
  /\ UNCHANGED <<pm, live, last, boot, calls>>

\* entry.unmap() on the entry the last map wrote
EntryUnmapCall ==
  /\ boot = "entry" /\ sch.op = "map"
  /\ sch' = [sch EXCEPT !.op = "unmap", !.word = EntryUnmap(sch.word).entry,
                        !.ret = EntryUnmap(sch.word).frame]
  /\ UNCHANGED <<pm, live, last, boot, calls>>

InitEntry ==
  /\ pm = PhysMemEmpty
  /\ live = {}
  /\ last = NoCall
  /\ boot = "entry"
  /\ calls = 0
  /\ sch = ZeroedEntry

NextEntry ==
  \/ \E frame \in FrameWords : EntryMapCall(frame)
  \/ EntryUnmapCall

SpecEntry == InitEntry /\ [][NextEntry]_vars

---------------------------------------------------------------------------
(* Scheduler (ex/mod.rs), context_swap (ex/ctx.rs) and IRQ0 (io/int.rs).   *)
(* sch.mem is stack memory, an array of words.  The scheduler loop runs    *)
(* on the words below SchedTop; the stack buffer of runnable t is the      *)
(* STACK_WORDS words from StackBase(t) up, the buffers of runnables        *)
(* spawned one after the other being adjacent.  sch.pc is the place the    *)
(* CPU executes, sch.sp and sch.regs its stack pointer and callee-saved    *)
(* registers, sch.ifl the interrupt flag.                                  *)

Threads == 1 .. NThreads

\* stack.as_mut_ptr() of runnable t: the lowest word of its buffer
StackBase(t) == (t + 1) * STACK_WORDS
OwnStack(t) == StackBase(t) .. (StackBase(t) + STACK_WORDS - 1)
SchedTop == STACK_WORDS
Addrs == 0 .. ((NThreads + 2) * STACK_WORDS - 1)

\* the words of stack buffers that were freed (unmapped, frames returned)
FreedAddrs(s) == UNION {OwnStack(t) : t \in s.freed}

\* registers a context holds while it runs
ThreadRegs(t) == [ebp |-> 10 * t + 1, ebx |-> 10 * t + 2, esi |-> 10 * t + 3, edi |-> 10 * t + 4]
SchedRegs == ThreadRegs(0)

Junk == [k |-> "junk", pc |-> "", v |-> 0]
RetWord(pc) == [k |-> "ret", pc |-> pc, v |-> 0]
RegWord(v) == [k |-> "reg", pc |-> "", v |-> v]
\* the frame the CPU pushes on an interrupt: flags, cs, ip (ip last);
\* the ip word also stands for the caller-saved eax the handler restores
EipWord(pc, eax) == [k |-> "eip", pc |-> pc, v |-> eax]
CsWord == [k |-> "cs", pc |-> "", v |-> 8]
FlagsWord(ifl) == [k |-> "eflags", pc |-> "", v |-> ifl]

Fault(s) == [s EXCEPT !.st = "fault"]
Wild(s) == [s EXCEPT !.st = "wild"]
SchedPanic(s, why) == [s EXCEPT !.st = "panic", !.why = why]

\* what an access to the words addrs can do: words of a freed buffer are
\* unmapped (page fault), still reachable through a stale TLB entry with
\* their old content, or hold what a later owner of the frames left
\* there: no frame at all, or a frame with other register values
Outcomes(s, addrs) ==
  IF addrs \cap FreedAddrs(s) = {} THEN {"mapped"}
  ELSE {"fault", "stale", "zeroed", "alien"}

WriteOutcomes(s, addrs) == Outcomes(s, addrs) \ {"zeroed", "alien"}

AlienWord(w) == IF w.k = "reg" THEN RegWord(0) ELSE w

ReadWord(s, a, o) ==
  IF a \notin FreedAddrs(s) THEN s.mem[a]
  ELSE IF o = "zeroed" THEN Junk
  ELSE IF o = "alien" THEN AlienWord(s.mem[a])
  ELSE s.mem[a]

\* Thread::new: the return address one word below the base of the
\* buffer, the saved stack pointer four more words below
ThreadNew(s, t) ==
  [s EXCEPT !.mem[StackBase(t) - 1] = RetWord("entry"),
            !.tsp[t] = StackBase(t) - 1 - 4]

\* context_swap up to `mov [edx], esp`: the call pushes the return
\* address, then ebp, ebx, esi, edi; the result has eax = load
PushFrame(s, load, ret) ==
  IF s.sp - 5 \notin Addrs THEN Fault(s)
  ELSE [s EXCEPT !.mem[s.sp - 1] = RetWord(ret),
                 !.mem[s.sp - 2] = RegWord(s.regs.ebp),
                 !.mem[s.sp - 3] = RegWord(s.regs.ebx),
                 !.mem[s.sp - 4] = RegWord(s.regs.esi),
                 !.mem[s.sp - 5] = RegWord(s.regs.edi),
                 !.sp = s.sp - 5, !.eax = load, !.pc = "swap_mid"]

FrameAddrs(sp) == (sp - 5) .. (sp - 1)

\* context_swap from `mov esp, eax` on: pop edi, esi, ebx, ebp and ret
PopFrame(s, o) ==
  IF s.eax \notin Addrs \/ s.eax + 4 \notin Addrs THEN Fault(s)
  ELSE IF ReadWord(s, s.eax + 4, o).k # "ret" THEN Wild(s)
  ELSE [s EXCEPT !.regs = [edi |-> ReadWord(s, s.eax, o).v,
                           esi |-> ReadWord(s, s.eax + 1, o).v,
                           ebx |-> ReadWord(s, s.eax + 2, o).v,
                           ebp |-> ReadWord(s, s.eax + 3, o).v],
                 !.pc = ReadWord(s, s.eax + 4, o).pc,
                 !.sp = s.eax + 5,
                 !.entered = IF ReadWord(s, s.eax + 4, o).pc \in {"entry", "tick_ret"}
                             THEN Append(@, s.work) ELSE @,
                 !.resumed = IF ReadWord(s, s.eax + 4, o).pc = "tick_ret" /\ s.work # 0
                             THEN [t |-> s.work, sp |-> s.eax + 5,
                                   regs |-> [edi |-> ReadWord(s, s.eax, o).v,
                                             esi |-> ReadWord(s, s.eax + 1, o).v,
                                             ebx |-> ReadWord(s, s.eax + 2, o).v,
                                             ebp |-> ReadWord(s, s.eax + 3, o).v],
                                   from |-> s.susp[s.eax]]
                             ELSE @]

Step(s, o) == IF o = "fault" THEN Fault(s) ELSE s

SchedIdle ==
  [st |-> "ok", why |-> "", pc |-> "init", sp |-> SchedTop, regs |-> SchedRegs,
   eax |-> None, ifl |-> 0, ssp |-> None, tsp |-> [t \in Threads |-> None],
   queue |-> << >>, work |-> 0, thread |-> 0, mem |-> [a \in Addrs |-> Junk],
   freed |-> {}, spawned |-> 0, ticks |-> 0,
   susp |-> [a \in Addrs |-> [sp |-> None, regs |-> SchedRegs]],
   entered |-> << >>, appended |-> << >>, returned |-> {}, exitUaf |-> FALSE,
   cap |-> 0, irqAlloc |-> FALSE,
   resumed |-> [t |-> 0, sp |-> None, regs |-> SchedRegs,
                from |-> [sp |-> None, regs |-> SchedRegs]]]

\* the scheduler is alive; the allocator is not part of these steps
Running == sch.st = "ok" /\ UNCHANGED <<pm, live, last, boot, calls>>

\* entries the log of entries can hold
MaxEntered == 7

\* whether work_queue.push_back has to allocate: the buffer is full
QueueFull(s) == Len(s.queue) = s.cap

\* the capacity of work_queue after push_back: a full buffer is doubled
Reserve(s) == IF ~QueueFull(s) THEN s.cap ELSE IF s.cap = 0 THEN MinCap ELSE 2 * s.cap

\* Scheduler::spawn: Thread::new, then push_back
SpawnOp(s) ==
  [ThreadNew(s, s.spawned + 1) EXCEPT
     !.queue = Append(@, s.spawned + 1),
     !.appended = Append(@, s.spawned + 1),
     !.cap = Reserve(s),
     !.spawned = @ + 1]

\* Scheduler::spawn, called by the scheduler's entry point before run
Spawn ==
  /\ Running /\ sch.pc = "init" /\ sch.spawned < NThreads
  /\ sch' = SpawnOp(sch)

\* Scheduler::spawn, called by the running runnable (spawns after an
\* exit, which reuse a freed stack buffer, are not followed)
SpawnInThread ==
  /\ Running /\ sch.pc = "method" /\ sch.work # 0 /\ sch.spawned < NThreads
  /\ sch.freed = {}
  /\ sch' = SpawnOp(sch)

\* the call of Scheduler::run
StartRun ==
  /\ Running /\ sch.pc = "init" /\ sch.spawned >= 1
  /\ sch' = [sch EXCEPT !.pc = "run_loop"]

\* the loop of run with front() in place of pop_front()
RunPopKeeps ==
  /\ Running /\ sch.pc = "run_loop"
  /\ sch' = IF sch.queue = << >>
            THEN [SchedPanic(sch, "Reached end of scheduler") EXCEPT !.pc = "run_end"]
            ELSE [sch EXCEPT !.thread = Head(sch.queue), !.pc = "run_set"]

\* Scheduler::run: `while let Some(thread) = self.work_queue.pop_front()`,
\* and the panic after the loop
RunPop ==
  /\ Running /\ sch.pc = "run_loop"
  /\ sch' = IF sch.queue = << >>
            THEN [SchedPanic(sch, "Reached end of scheduler") EXCEPT !.pc = "run_end"]
            ELSE [sch EXCEPT !.thread = Head(sch.queue), !.queue = Tail(sch.queue),
                             !.pc = "run_set"]

\* Scheduler::run: `self.work = Some(thread)`
RunSet ==
  /\ Running /\ sch.pc = "run_set"
  /\ sch' = [sch EXCEPT !.work = sch.thread, !.pc = "run_swap"]

\* Scheduler::run: context_swap(work.stack_ptr, &mut self.stack_ptr), first half
RunSwap ==
  /\ Running /\ sch.pc = "run_swap"
  /\ \E o \in WriteOutcomes(sch, FrameAddrs(sch.sp)) :
       sch' = IF sch.work = 0 THEN Wild(sch)
              ELSE Step([PushFrame(sch, sch.tsp[sch.work], "run_loop") EXCEPT
                           !.ssp = sch.sp - 5], o)

\* enter(true): context_swap(self.stack_ptr, &mut back.stack_ptr), first half
TickSwap ==
  /\ Running /\ sch.pc = "tick_swap"
  /\ \E o \in WriteOutcomes(sch, FrameAddrs(sch.sp)) :
       sch' = IF sch.queue = << >> THEN Wild(sch)
              ELSE Step([PushFrame(sch, sch.ssp, "tick_ret") EXCEPT
                           !.tsp[sch.queue[Len(sch.queue)]] = sch.sp - 5,
                           !.susp[sch.sp - 5] = [sp |-> sch.sp, regs |-> sch.regs]], o)

\* enter(false): context_swap(self.stack_ptr, &mut ptr::null_mut()), first half
ExitSwap ==
  /\ Running /\ sch.pc = "exit_swap"
  /\ \E o \in WriteOutcomes(sch, FrameAddrs(sch.sp)) :
       sch' = Step([PushFrame(sch, sch.ssp, "exit_end") EXCEPT
                      !.exitUaf = @ \/ FrameAddrs(sch.sp) \cap FreedAddrs(sch) # {}], o)

\* context_swap, second half
SwapLoad ==
  /\ Running /\ sch.pc = "swap_mid" /\ Len(sch.entered) < MaxEntered
  /\ \E o \in Outcomes(sch, FrameAddrs(sch.eax + 5)) :
       sch' = Step(PopFrame(sch, o), o)

\* entry_point_thread: enter(false) up to the call of the method
ThreadEntry ==
  /\ Running /\ sch.pc = "entry"
  /\ sch' = IF sch.work = 0 THEN SchedPanic(sch, "Entered while not in a thread")
            ELSE [sch EXCEPT !.ifl = 1, !.regs = ThreadRegs(sch.work), !.pc = "method"]

\* the method returns
MethodReturn ==
  /\ Running /\ sch.pc = "method"
  /\ sch' = [sch EXCEPT !.returned = IF sch.work = 0 THEN @ ELSE @ \cup {sch.work},
                        !.pc = "exit_drop"]

\* enter(false): `self.work = None` drops the Thread and frees its stack
ExitDrop ==
  /\ Running /\ sch.pc = "exit_drop"
  /\ sch' = [sch EXCEPT !.freed = IF sch.work = 0 THEN @ ELSE @ \cup {sch.work},
                        !.work = 0, !.pc = "exit_swap"]

\* IRQ0: the CPU pushes flags, cs, ip and clears IF; the handler runs
\* PIC.eoi(0) and enter(true) up to its sti
Irq0 ==
  /\ Running /\ sch.ifl = 1 /\ sch.ticks < MaxTicks
  /\ \E o \in WriteOutcomes(sch, (sch.sp - 3) .. (sch.sp - 1)) :
       sch' = IF sch.sp - 3 \notin Addrs THEN Fault(sch)
              ELSE IF sch.work = 0
              THEN Step([SchedPanic(sch, "Entered while not in a thread") EXCEPT
                           !.ticks = @ + 1, !.ifl = 0], o)
              ELSE Step([sch EXCEPT
                           !.mem[sch.sp - 1] = FlagsWord(sch.ifl),
                           !.mem[sch.sp - 2] = CsWord,
                           !.mem[sch.sp - 3] = EipWord(sch.pc, sch.eax),
                           !.sp = sch.sp - 3, !.ticks = @ + 1,
                           !.queue = Append(@, sch.work),
                           !.appended = Append(@, sch.work),
                           !.cap = Reserve(sch),
                           !.irqAlloc = @ \/ QueueFull(sch),
                           !.work = 0, !.ifl = 1, !.pc = "tick_swap"], o)

\* the return of the IRQ0 handler: iret pops ip, cs, flags
Iret ==
  /\ Running /\ sch.pc = "tick_ret"
  /\ \E o \in Outcomes(sch, sch.sp .. (sch.sp + 2)) :
       sch' = IF sch.sp + 2 \notin Addrs THEN Fault(sch)
              ELSE IF ReadWord(sch, sch.sp, o).k # "eip" THEN Step(Wild(sch), o)
              ELSE Step([sch EXCEPT !.pc = ReadWord(sch, sch.sp, o).pc,
                                    !.eax = ReadWord(sch, sch.sp, o).v,
                                    !.ifl = ReadWord(sch, sch.sp + 2, o).v,
                                    !.sp = sch.sp + 3], o)

InitSched ==
  /\ pm = PhysMemEmpty
  /\ live = {}
  /\ last = NoCall
  /\ boot = "sched"
  /\ calls = 0
  /\ sch = SchedIdle

NextSched ==
  \/ Spawn \/ StartRun \/ RunPop \/ RunSet \/ RunSwap \/ TickSwap \/ ExitSwap
  \/ SwapLoad \/ ThreadEntry \/ MethodReturn \/ ExitDrop \/ Irq0 \/ Iret
  \/ SpawnInThread

SpecSched == InitSched /\ [][NextSched]_vars

---------------------------------------------------------------------------
(* The IRQ handlers of io/int.rs and the interrupt controller.  An event   *)
(* is a write to a port of the PIC or the call of Scheduler::enter.        *)

\* the command ports of the master and the slave PIC, and OCW2's EOI bit
CMD1 == 32
CMD2 == 160
OCW2_EOI == 32
\* the handlers irq_00 .. irq_15
IRQS == 16

PortWrite(port, value) == [ev |-> "out", port |-> port, value |-> value]
EnterCall == [ev |-> "enter", port |-> 0, value |-> 0]

\* PIC::eoi that writes to the slave for IRQs above 8 only: a faulty
\* variant the end-of-interrupt property must be able to tell from eoi
EoiAbove8(irq) ==
  (IF irq > 8 THEN <<PortWrite(CMD2, OCW2_EOI)>> ELSE << >>) \o <<PortWrite(CMD1, OCW2_EOI)>>

\* PIC::eoi
Eoi(irq) ==
  (IF irq >= 8 THEN <<PortWrite(CMD2, OCW2_EOI)>> ELSE << >>) \o <<PortWrite(CMD1, OCW2_EOI)>>

\* the body of handler irq_n: PIC.eoi(n), and for IRQ0 the scheduler's enter(true)
IrqBody(n) == Eoi(n) \o (IF n = 0 THEN <<EnterCall>> ELSE << >>)

NoIrq == [st |-> "pic", irqs |-> << >>, events |-> << >>]

\* IRQ n is delivered and its handler runs
IrqHandler(n) ==
  /\ boot = "pic"
  /\ Len(sch.irqs) < MaxIrqs
  /\ sch' = [sch EXCEPT !.irqs = Append(@, n), !.events = IrqBody(n)]
  /\ UNCHANGED <<pm, live, last, boot, calls>>

InitPic ==
  /\ pm = PhysMemEmpty
  /\ live = {}
  /\ last = NoCall
  /\ boot = "pic"
  /\ calls = 0
  /\ sch = NoIrq

NextPic == \E n \in 0 .. (IRQS - 1) : IrqHandler(n)

SpecPic == InitPic /\ [][NextPic]_vars

---------------------------------------------------------------------------
(* Claims about the virtual-memory allocator                               *)

RangesDisjoint(p1, n1, p2, n2) == p1 + n1 <= p2 \/ p2 + n2 <= p1

AllocateResult(hint, count) == VmAllocateContiguous([pm EXCEPT !.created = 0], hint, count)

DisjointFromLive(r, count) ==
  (r.s.st = "ok" /\ r.page # None) =>
    \A a \in live : RangesDisjoint(r.page, count, a.page, a.count)

\* C1: whatever allocate / free calls came before, the page range that
\* allocate(hint, n) returns is disjoint from every range still live
C1_AllocateDisjointFromLive ==
  pm.st = "ok" =>
    \A hint \in Pages, count \in 1 .. MaxCount :
      DisjointFromLive(AllocateResult(hint, count), count)

\* one turn of the loop counts on from the same page_start, or starts
\* again at a later page_start with the counter at zero
TurnProgresses ==
  (sch.pc = "loop" /\ sch'.pc = "loop") =>
    \/ sch'.page_start = sch.page_start /\ sch'.consecutive_pages > sch.consecutive_pages
    \/ sch'.page_start >= sch.page_start + 1 /\ sch'.consecutive_pages = 0

\* a turn that starts with page_start + count beyond the bound returns None
NoneBeyondBound ==
  (sch.pc = "loop" /\ sch.page_start + sch.count > PAGES_TOTAL) =>
    sch'.pc = "done" /\ sch'.ret = None

\* C38: find_free(hint, n) terminates for every hint, n >= 1 and page
\* table state: every turn of its loop increases the counter or advances
\* page_start by at least one and resets the counter, and it returns None
\* as soon as page_start + n exceeds PAGES_TOTAL
C38_FindFreeTerminates ==
  /\ <>(sch.pc = "done")
  /\ [][TurnProgresses]_vars
  /\ [][NoneBeyondBound]_vars

\* a call that counted, started again after a used page and found its run
C38_Witness ==
  /\ sch.st = "scan" /\ sch.pc = "done"
  /\ sch.ret # None /\ sch.ret > sch.hint
  /\ sch.count = MaxCount

\* a call that started again after a used page and ran into the bound
C38_WitnessNone ==
  /\ sch.st = "scan" /\ sch.pc = "done"
  /\ sch.ret = None /\ sch.page_start > sch.hint

\* a call of allocate that came back with None without panicking
AllocateFailed ==
  /\ pm.st = "ok" /\ pm'.st = "ok"
  /\ calls' = calls + 1
  /\ last'.op = "allocate" /\ last'.page = None

\* C37: when allocate_contiguous returns None, for want of frames or for
\* want of pages at or after the hint, the frame bitmap and the free
\* count are what they were before the call
C37_FailedAllocateReservesNothing ==
  [][AllocateFailed => pm'.used = pm.used /\ pm'.free = pm.free]_vars

\* the pages of the recursive window: top-level index RECURSIVE_INDEX
WindowPages == {q \in Pages : L2Index(q) = RECURSIVE_INDEX}

\* C36: allocate / map never return a page whose top-level index is the
\* recursive index, so that no leaf write of map changes an entry of the
\* top-level table or of an intermediate table
C36_WindowNeverAllocated ==
  \A a \in live : (a.page .. (a.page + a.count - 1)) \cap WindowPages = {}

\* C6 as stated: allocate(hint, n) = p followed by free(p, n) leaves the
\* free count at its value before the allocate
C6_AllocateFreeRestoresFreeCount ==
  (last.op = "free" /\ last.afterAllocate /\ pm.st = "ok") => pm.free = last.free0

\* C6 amended: the free count ends lower than before the allocate by the
\* number of intermediate tables the allocate created (they are never
\* reclaimed), and equal to it when it created none
C6_AllocateFreeKeepsTables ==
  (last.op = "free" /\ last.afterAllocate /\ pm.st = "ok")
    => pm.free = last.free0 - last.created

C6_Witness ==
  last.op = "free" /\ last.afterAllocate /\ pm.st = "ok" /\ last.count = MaxCount

C6_WitnessNoTable ==
  last.op = "free" /\ last.afterAllocate /\ pm.st = "ok" /\ last.created = 0

FindFreeSound(mem, ff, hint, count) ==
  /\ ff.page # None =>
       /\ ff.page >= hint
       /\ \A p \in ff.page .. (ff.page + count - 1) : ~LeafUsed(mem, p)
  /\ \A p \in ff.skipped \cap Pages : ~LeafUsed(mem, p)

\* C7: for every hint and n, the page find_free returns is at or after
\* the hint and its n pages are all unmapped, and every page find_free
\* passes over because an intermediate entry is absent is unmapped
C7_FindFreeRangeUnmapped ==
  pm.st = "ok" =>
    \A hint \in Pages, count \in 1 .. MaxCount :
      FindFreeSound(pm.mem, VmFindFree(pm.mem, hint, count), hint, count)

---------------------------------------------------------------------------
(* Claims about the frame allocator                                        *)

\* C4: every frame above the kernel's that is marked used when phase 2
\* replaces the bitmap (intermediate tables, the storage of the new
\* bitmap) is still marked used when phase 2 has finished
C4_Phase2PreservesUsedFrames ==
  (last.op = "e820" /\ pm.st = "ok") =>
    \A f \in KERNEL_FRAMES .. (Len(last.used0) - 1) :
      (last.used0[f + 1] = 1 /\ f < Len(pm.used)) => pm.used[f + 1] = 1

\* frame f lies entirely inside the available entry e
FrameInside(f, e) ==
  /\ e.type = MULTIBOOT_MEMORY_AVAILABLE
  /\ e.addr <= f * BYTES_PER_PAGE
  /\ (f + 1) * BYTES_PER_PAGE <= e.addr + e.len

\* C31: after phase 2 over any memory map, entries with bases and lengths
\* that need not be page-aligned included, every frame marked free is at
\* or above KERNEL_FRAMES and lies entirely inside some available entry;
\* frames in no available entry and the bits of the bitmap at or beyond
\* the top frame are marked used
C31_FreeFramesInsideAvailable ==
  (boot = "e820" /\ sch.st = "map" /\ pm.st = "ok") =>
    /\ \A f \in 0 .. (Len(pm.used) - 1) :
         Bit(pm.used, f) = 0 =>
           /\ f >= KERNEL_FRAMES
           /\ \E i \in 1 .. Len(sch.map) : FrameInside(f, sch.map[i])
    /\ \A f \in PhysMemMax(sch.map) .. (Len(pm.used) - 1) : Bit(pm.used, f) = 1

\* C32: no execution asks for the lock of the frame allocator while it
\* holds it: replacing the allocator in init_phys_mem_e820 under the lock
\* does not reach dealloc / VirtualMemory::free, and phase 2 releases the
\* lock and returns
C32_Phase2ReleasesLock == pm.st # "hang"

\* the present entries of the page tables, the recursive entry left out:
\* those of the top-level table and those of the tables it points to
PresentEntries(mem) ==
  {[tf |-> PTL0, idx |-> i] :
     i \in {j \in TableIdx \ {RECURSIVE_INDEX} : EntryPresent(mem[PTL0][j])}} \cup
  {e \in [tf : Frames \ {PTL0}, idx : TableIdx] :
     /\ \E i \in TableIdx \ {RECURSIVE_INDEX} :
          EntryPresent(mem[PTL0][i]) /\ EntryFrame(mem[PTL0][i]) = e.tf
     /\ EntryPresent(mem[e.tf][e.idx])}

\* e is an entry the entry stub wrote and nothing has changed since
StubEntry(mem, e) == mem[e.tf][e.idx] = InitVirtMemOp(PhysMemEmpty).mem[e.tf][e.idx]

\* C35: after boot and any sequence of allocate / free no frame backs two
\* present page-table entries at once (leaf or intermediate, the recursive
\* entry and the pairs of entries of the entry stub left aside), and every
\* frame that backs a present entry created by allocate or table_create
\* is marked used in the frame bitmap
C35_FramesOwnedOnce ==
  (boot = "e820" /\ pm.st = "ok") =>
    /\ \A a \in PresentEntries(pm.mem) : \A b \in PresentEntries(pm.mem) :
         (a # b /\ ~(StubEntry(pm.mem, a) /\ StubEntry(pm.mem, b))) =>
           EntryFrame(pm.mem[a.tf][a.idx]) # EntryFrame(pm.mem[b.tf][b.idx])
    /\ \A a \in PresentEntries(pm.mem) :
         ~StubEntry(pm.mem, a) =>
           /\ EntryFrame(pm.mem[a.tf][a.idx]) < Len(pm.used)
           /\ Bit(pm.used, EntryFrame(pm.mem[a.tf][a.idx])) = 1

\* C5: after phase 1, after phase 2 and after any allocate / free, the
\* stored free count equals the number of zero bits of the bitmap
C5_FreeCountMatchesBitmap ==
  (pm.st = "ok" /\ boot \in {"bare", "e820"}) => pm.free = ZeroCount(pm.used)

\* whether frames 0 .. KERNEL_FRAMES - 1 are all marked used
KernelFramesUsed(s) ==
  /\ Len(s.used) >= KERNEL_FRAMES
  /\ \A f \in 0 .. (KERNEL_FRAMES - 1) : Bit(s.used, f) = 1

\* C11: from the end of phase 1 on, across phase 2 and allocate / free,
\* the kernel's frames 0 .. 1023 are marked used whenever the kernel is
\* between two calls, and find_free never answers with one of them
C11_KernelFramesStayUsed ==
  (pm.st = "ok" /\ boot \in {"bare", "e820"}) =>
    /\ KernelFramesUsed(pm)
    /\ \A count \in 1 .. MaxCount :
         PmFindFree(pm, count) = None \/ PmFindFree(pm, count) >= KERNEL_FRAMES

\* the frames s at which count zero bits of the bitmap start
ZeroRuns(bm, count) ==
  {s \in 0 .. (Len(bm) - count) : \A i \in s .. (s + count - 1) : Bit(bm, i) = 0}

\* C13: find_free(n) returns the smallest s such that bits s .. s+n-1
\* are all zero, and None exactly when free < n or there is no such s
C13_FindFreeFirstRun ==
  last.op = "find_free" =>
    last.page = (IF pm.free < last.count \/ ZeroRuns(pm.used, last.count) = {}
                 THEN None ELSE Min(ZeroRuns(pm.used, last.count)))

\* find_free answered with a run that crosses a word boundary and is not
\* the first run of zero bits of the bitmap
C13_Witness ==
  /\ last.op = "find_free" /\ last.page # None /\ last.count >= 2
  /\ last.page \div BITS # (last.page + last.count - 1) \div BITS
  /\ \E i \in 0 .. (last.page - 2) : Bit(pm.used, i) = 0

\* find_free answered None although the stored count is large enough
C13_WitnessNoRun ==
  last.op = "find_free" /\ last.page = None /\ pm.free >= last.count

---------------------------------------------------------------------------
(* Claims about the page tables                                            *)

---------------------------------------------------------------------------
(* Claims about main                                                       *)

\* the memory map of one available entry that starts at 0 and covers
\* every frame of the machine (16 MiB in the claim)
WholeMemoryMap ==
  <<[addr |-> 0, len |-> MaxTopFrame * BYTES_PER_PAGE, type |-> MULTIBOOT_MEMORY_AVAILABLE]>>

GoodBoot ==
  /\ sch.st = "main" /\ sch.magic = MULTIBOOT_BOOTLOADER_MAGIC
  /\ MemMapBit(sch.flags) # 0 /\ sch.map = WholeMemoryMap

\* C17: with the Multiboot magic, the memory-map flag and a map of one
\* available entry from 0, boot finishes phase 1 and phase 2, prints
\* the banner and reaches the scheduler loop
C17_BootReachesScheduler ==
  GoodBoot => /\ <>(boot = "e820" /\ pm.st = "ok")
              /\ <>(sch.out # << >>)
              /\ <>(boot = "scheduler")

BadBoot ==
  /\ sch.st = "main"
  /\ (sch.magic # MULTIBOOT_BOOTLOADER_MAGIC \/ MemMapBit(sch.flags) = 0)

\* C18: with another magic, or without the memory-map flag, the kernel
\* reaches its halt loop and never initialises the frame allocator,
\* touches the page tables, initialises logging or prints the banner
C18_BadBootHalts ==
  BadBoot => /\ [](pm = PhysMemEmpty /\ sch.out = << >>
                     /\ boot \in {"main", "setup", "magic_ok", "halt"})
             /\ <>[](boot = "halt")

\* the magic was right, the flag was missing, and main has halted
C18_Witness == BadBoot /\ sch.magic = MULTIBOOT_BOOTLOADER_MAGIC /\ boot = "halt"

---------------------------------------------------------------------------
(* Claims about page tables                                                *)

\* x sign-extended from the highest bit of a virtual address
Canonical(arch, x) ==
  IF arch = "x86" THEN x
  ELSE (x % 2 ^ AddrBits(arch))
       + (IF x % 2 ^ AddrBits(arch) >= 2 ^ (AddrBits(arch) - 1)
          THEN 2 ^ WordBits(arch) - 2 ^ AddrBits(arch) ELSE 0)

\* the reference address: ((A << log2(entries)) mod 2^wordsize) | (i << 12)
ReferenceTable(arch, A, i) ==
  Canonical(arch, BitOr((A * 2 ^ EntryBits) % 2 ^ WordBits(arch), i * 2 ^ OffsetBits))

\* a table was returned by the last call
TableReturned == sch.st = "table" /\ sch.index # None /\ sch.ret # None

\* C26: for a present entry i of a table at address A reached through the
\* recursive mapping, table(i) is ((A << log2(entries)) mod 2^wordsize) |
\* (i << 12), sign-extended on x86-64; on x86, from the top-level table,
\* (R << 22) | (i << 12), which for i = R is the top-level table itself
C26_TableAddress ==
  TableReturned =>
    /\ sch.ret = ReferenceTable(sch.arch, sch.from, sch.index)
    /\ sch.retKernel = sch.ret
    /\ sch.arch = "x86" =>
         /\ sch.ret = RecursiveIndex("x86") * 2 ^ (OffsetBits + EntryBits)
                      + sch.index * 2 ^ OffsetBits
         /\ sch.index = RecursiveIndex("x86") => sch.ret = PageTableAddr("x86")

\* on x86-64 a third-level table outside the recursive slot has been
\* reached, at an address with the sign bits set
C26_Witness ==
  /\ TableReturned /\ sch.arch = "x86_64" /\ sch.level = 2
  /\ sch.path[1] = RecursiveIndex("x86_64") /\ sch.path[2] # RecursiveIndex("x86_64")
  /\ sch.ret >= 2 ^ (WordBits("x86_64") - 1)

\* C30: for every frame number that fits the frame field of an entry,
\* after map(f) the entry is used with PRESENT and WRITEABLE set, and
\* unmap() returns f and leaves the entry free, the word 0; a freshly
\* zeroed entry is free, and an entry that maps frame 0 is used
C30_MapUnmapRoundTrip ==
  boot = "entry" =>
    /\ sch.op = "zeroed" => ~EntryUsed(sch.word)
    /\ (sch.op = "map" /\ FitsEntry(sch.frame)) =>
          EntryUsed(sch.word) /\ EntryPresent(sch.word) /\ EntryWriteable(sch.word)
    /\ (sch.op = "unmap" /\ FitsEntry(sch.frame)) =>
          sch.ret = sch.frame /\ sch.word = 0 /\ ~EntryUsed(sch.word)

\* unmap has returned the largest frame number that fits the entry
C30_Witness ==
  /\ boot = "entry" /\ sch.op = "unmap"
  /\ FitsEntry(sch.frame) /\ ~FitsEntry(sch.frame + 1)
  /\ sch.ret = sch.frame

\* the pages and the frames runnable k's allocate returned
RacePages(c) == c.page_start .. (c.page_start + c.count - 1)
RaceFrames(c) == c.frame_start .. (c.frame_start + c.count - 1)

---------------------------------------------------------------------------
(* Claims about the heap                                                   *)

\* C19: when the bitmap has no run of n zero bits, allocate returns None
\* and alloc returns null, the kernel does not panic and no page-table
\* entry changes
C19_NoFramesNoMapping ==
  [][(calls' = calls + 1 /\ last'.op = "alloc" /\ ZeroRuns(pm.used, last'.count) = {})
       => (last'.page = None /\ last'.ptr = NULL /\ pm'.st = "ok" /\ pm'.mem = pm.mem)]_vars

\* alloc has returned null for two pages while two frames were free, but
\* not next to each other
C19_Witness ==
  /\ last.op = "alloc" /\ last.ptr = NULL /\ pm.st = "ok"
  /\ last.count = 2 /\ pm.free = 2
  /\ Cardinality(ZeroRuns(pm.used, 1)) = 2 /\ ZeroRuns(pm.used, 2) = {}

\* the pages of the block the last alloc or dealloc was about
BlockPages == PtrPage(last.ptr) .. (PtrPage(last.ptr) + LayoutPages(last.size) - 1)

\* the bitmap bm with the bits of the frames fs cleared
WithoutFrames(bm, fs) == [i \in 1 .. Len(bm) |-> IF (i - 1) \in fs THEN 0 ELSE bm[i]]

\* alloc returned a pointer: it is the address of a page at or after the
\* KERNEL_VMA page, and the leaf entries in use are those in use before
\* plus the ceil(size / BYTES_PER_PAGE) pages from that page on
AllocMapsExactly ==
  (last.op = "alloc" /\ pm.st = "ok" /\ last.ptr # NULL) =>
    /\ last.ptr = PagePtr(PtrPage(last.ptr))
    /\ PtrPage(last.ptr) >= KERNEL_VMA_PAGE
    /\ BlockPages \cap last.leaf0 = {}
    /\ LeafPages(pm.mem) = last.leaf0 \cup BlockPages

\* dealloc of the block the alloc just before it returned: the leaf
\* entries in use are those in use before the alloc, and the frames set
\* free are the frames of the block
DeallocUndoesAlloc ==
  (last.op = "dealloc" /\ last.afterAlloc) =>
    /\ pm.st = "ok"
    /\ LeafPages(pm.mem) = last.leaf0
    /\ Cardinality(last.frames) = LayoutPages(last.size)
    /\ \A f \in last.frames : f < Len(last.used1) /\ last.used1[f + 1] = 1
    /\ pm.used = WithoutFrames(last.used1, last.frames)
    /\ pm.free = (last.free1 + LayoutPages(last.size)) % WordMod

\* C20: alloc(layout) maps exactly ceil(size / BYTES_PER_PAGE) pages at or
\* after the KERNEL_VMA page and returns the address of the first;
\* dealloc with the same pointer and layout unmaps exactly those pages and
\* frees exactly their frames, so that every leaf entry is as before
C20_AllocDeallocRoundTrip == AllocMapsExactly /\ DeallocUndoesAlloc

---------------------------------------------------------------------------
(* Claims about the bitmap                                                 *)

\* C22: every range consecutive_zeros(k) yields has length >= k, lies
\* within the capacity of the bitmap and holds zero bits only, and each
\* range starts at or after the end of the one before it
C22_YieldedRangesSound ==
  last.op = "consecutive_zeros" =>
    /\ \A i \in 1 .. Len(last.ranges) :
         /\ last.ranges[i][2] - last.ranges[i][1] >= last.count
         /\ 0 <= last.ranges[i][1] /\ last.ranges[i][2] <= Len(pm.used)
         /\ \A j \in last.ranges[i][1] .. (last.ranges[i][2] - 1) : Bit(pm.used, j) = 0
    /\ \A i \in 1 .. (Len(last.ranges) - 1) :
         last.ranges[i][2] <= last.ranges[i + 1][1]

\* two ranges have been yielded, the first one across a word boundary
C22_Witness ==
  /\ last.op = "consecutive_zeros" /\ Len(last.ranges) >= 2
  /\ last.ranges[1][1] < BITS /\ last.ranges[1][2] > BITS

\* the first position e >= s + k that is a word boundary or a one bit
RunEnd(bm, s, k) ==
  Min({e \in (s + k) .. Len(bm) : e % BITS = 0 \/ Bit(bm, e) = 1})

\* what the first next() is to answer: None, or the range <<s, e>>
FirstRange(bm, k) ==
  IF ZeroRuns(bm, k) = {} THEN << >>
  ELSE << <<Min(ZeroRuns(bm, k)), RunEnd(bm, Min(ZeroRuns(bm, k)), k)>> >>

\* the first next() has returned
FirstNextDone ==
  /\ last.op = "consecutive_zeros" /\ boot = "zeros"
  /\ (last.done /\ last.ranges = << >>) \/ (~last.done /\ Len(last.ranges) = 1)

\* C23 on the bitmaps of at least one word
FirstNextRight == FirstNextDone => last.ranges = FirstRange(pm.used, last.count)

\* C23: consecutive_zeros(k).next() returns None exactly when the bitmap
\* has no k consecutive zero bits, and otherwise the range that starts at
\* the lowest such run and ends at the first word boundary or one bit at
\* or after its k-th bit
C23_FirstRangeGreedy ==
  /\ (last.op = "consecutive_zeros" => boot # "panic")
  /\ FirstNextRight

\* the bitmap bm with every bit of start .. end - 1 set to v
WithRange(bm, start, end, v) ==
  [i \in 1 .. Len(bm) |-> IF start <= i - 1 /\ i - 1 < end THEN v ELSE bm[i]]

\* C24: after set_ones(r) every bit of r is one and every other bit is
\* as before; after set_zeros(r) every bit of r is zero and every other
\* bit is as before
C24_SetRangeExact ==
  /\ boot = "ones" => pm.used = WithRange(last.used0, last.start, last.end, 1)
  /\ boot = "zeros" => pm.used = WithRange(last.used0, last.start, last.end, 0)

\* set_ones of a range that starts inside the first word, covers the
\* second and ends at the capacity of a bitmap of three words
C24_Witness ==
  /\ boot = "ones" /\ Len(pm.used) = 3 * BITS
  /\ last.start % BITS # 0 /\ last.start < BITS /\ last.end = Len(pm.used)
  /\ \E i \in 1 .. Len(pm.used) : last.used0[i] # pm.used[i]

\* C25 as stated: set_ones(r) followed by set_zeros(r) restores the
\* original bitmap bit for bit
C25_RoundTripRestores == boot = "round" => pm.used = last.used0

\* C25, amended: set_ones(r) followed by set_zeros(r) leaves the bitmap
\* with every bit of r zero and every other bit as before, which is the
\* original bitmap exactly when r held no one bit
C25_RoundTripClearsRange ==
  boot = "round" =>
    /\ pm.used = WithRange(last.used0, last.start, last.end, 0)
    /\ (pm.used = last.used0) <=>
         (\A i \in last.start .. (last.end - 1) : Bit(last.used0, i) = 0)

\* the round trip over a range of zero bits across a word boundary, in a
\* bitmap that has one bits elsewhere
C25_Witness ==
  /\ boot = "round" /\ pm.used = last.used0
  /\ last.start < BITS /\ last.end > BITS
  /\ \E i \in 1 .. Len(pm.used) : pm.used[i] = 1

\* free has been called on the range last'.page .. last'.page + last'.count - 1
FreeStep == calls' = calls + 1 /\ last'.op = "dealloc"

\* every page of the range has its intermediate table and a leaf entry in use
RangeMapped(mem, page, count) == \A q \in page .. (page + count - 1) : LeafUsed(mem, q)

\* the frame of the table that holds the leaf entry of a page
LeafTable(mem, page) == Xlate(mem, Table(mem, PAGE_TABLE, page))

\* the frames the leaf entries of the range name
BackingFrames(mem, page, count) ==
  {EntryFrame(mem[LeafTable(mem, q)][L1Index(q)]) : q \in page .. (page + count - 1)}

\* the page tables with the leaf entries of the range set to zero and
\* every entry of the top-level table, and every other entry, as it was
LeavesCleared(mem, page, count) ==
  [f \in Frames |->
     [i \in TableIdx |->
        IF f # Xlate(mem, PAGE_TABLE)
           /\ \E q \in page .. (page + count - 1) :
                LeafTable(mem, q) = f /\ L1Index(q) = i
        THEN 0 ELSE mem[f][i]]]

\* C21: free(page_start, n) on n mapped pages clears exactly their leaf
\* entries and sets exactly their n frames free (free count + n), every
\* other entry is unchanged; on a range with an absent table or a free
\* leaf entry it panics
C21_FreeClearsExactlyRange ==
  [][FreeStep =>
       IF RangeMapped(pm.mem, last'.page, last'.count)
       THEN /\ pm'.st = "ok"
            /\ pm'.mem = LeavesCleared(pm.mem, last'.page, last'.count)
            /\ Cardinality(BackingFrames(pm.mem, last'.page, last'.count)) = last'.count
            /\ pm'.used = WithoutFrames(pm.used,
                                        BackingFrames(pm.mem, last'.page, last'.count))
            /\ pm'.free = (pm.free + last'.count) % WordMod
       ELSE pm'.st = "panic"]_vars

\* allocate has returned a range and has called table_create once, on an
\* entry that was not present
TableCreateStep ==
  /\ calls' = calls + 1 /\ last'.op = "allocate" /\ last'.created = 1
  /\ pm'.st = "ok" /\ last'.page # None

\* the top-level indices of the pages of a range that went from free to used
CreatedAt(mem0, mem1, page, count) ==
  {i \in {L2Index(q) : q \in page .. (page + count - 1)} :
     ~EntryUsed(mem0[Xlate(mem0, PAGE_TABLE)][i])
     /\ EntryUsed(mem1[Xlate(mem1, PAGE_TABLE)][i])}

\* the frames the allocator has handed out between two bitmaps
FramesTaken(used0, used1) ==
  {g \in 0 .. (Len(used0) - 1) : Bit(used0, g) = 0 /\ Bit(used1, g) = 1}

\* what the claim says of the table created at top-level index i for the
\* range page .. page + count - 1: s0 before the allocate, s1 after it
TableCreated(s0, s1, i, f, page, count) ==
  /\ s1.mem[Xlate(s1.mem, PAGE_TABLE)][i] = EntryMap(f)
  /\ f < Len(s0.used) /\ Bit(s0.used, f) = 0
  /\ Len(s1.used) = Len(s0.used) /\ Bit(s1.used, f) = 1
  /\ f \notin BackingFrames(s1.mem, page, count)
  /\ FramesTaken(s0.used, s1.used) = BackingFrames(s1.mem, page, count) \cup {f}
  /\ \A j \in TableIdx :
       s1.mem[f][j] # 0 => \E q \in page .. (page + count - 1) :
                              L2Index(q) = i /\ L1Index(q) = j

\* C27: table_create on a not-present entry takes exactly one free frame
\* and marks it used, installs it present and writable in the entry, and
\* leaves every entry of the new table zero (the leaves map writes
\* afterwards apart); the frame is none of the frames of the allocation
\* in progress
C27_TableCreateTakesOneFrame ==
  [][TableCreateStep =>
       \E i \in CreatedAt(pm.mem, pm'.mem, last'.page, last'.count) :
         TableCreated(pm, pm', i, EntryFrame(pm'.mem[Xlate(pm'.mem, PAGE_TABLE)][i]),
                      last'.page, last'.count)]_vars

---------------------------------------------------------------------------
(* Claims about the scheduler                                              *)

IsPrefix(a, b) == Len(a) <= Len(b) /\ \A k \in 1 .. Len(a) : a[k] = b[k]

\* C2: the run-queue is FIFO: runnables are entered in the order in which
\* they were appended (spawned, then appended by each yield), and only a
\* runnable that has been entered is appended by a yield
C2_EntriesFollowQueueOrder ==
  /\ IsPrefix(sch.entered, sch.appended)
  /\ Len(sch.appended) - sch.spawned <= Len(sch.entered)

\* C3: once a runnable's closure has returned and its Thread has been
\* dropped, the context_swap of its exit path pushes nothing onto a
\* stack buffer that has been freed
C3_ExitPathOffFreedStack == ~sch.exitUaf

\* the saved stack pointer of t is the address of a frame inside t's own
\* stack buffer: four register slots, then a return address into the
\* entry point or to the instruction after a context_swap of enter
ValidSavedFrame(s, t) ==
  /\ s.tsp[t] \in OwnStack(t)
  /\ s.tsp[t] + 4 \in OwnStack(t)
  /\ s.mem[s.tsp[t] + 4].k = "ret"
  /\ s.mem[s.tsp[t] + 4].pc \in {"entry", "tick_ret"}
  /\ \A i \in 0 .. 3 : s.mem[s.tsp[t] + i].k \in {"reg", "junk"}

\* C8: every runnable on the run-queue has a saved stack pointer into its
\* own stack, at a valid frame (the instant between push_back and the
\* save of enter's context_swap left aside)
C8_QueuedFramesValid ==
  (sch.st = "ok" /\ sch.pc # "tick_swap") =>
    \A i \in 1 .. Len(sch.queue) : ValidSavedFrame(sch, sch.queue[i])

\* C9: a runnable resumed after a suspension by context_swap has the
\* stack pointer and the callee-saved registers it had when suspended
C9_ResumeRestoresContext ==
  sch.resumed.t # 0 =>
    /\ sch.resumed.regs = sch.resumed.from.regs
    /\ sch.resumed.sp = sch.resumed.from.sp

\* C14: the IRQ0 path (EOI, enter(true): take the running runnable,
\* push_back, context switch) never allocates from the heap, and so never
\* asks for the lock of the frame allocator
C14_Irq0NeverAllocates == ~sch.irqAlloc

\* C15: from the entry of the IRQ0 handler up to its context switch to
\* the scheduler loop interrupts stay disabled
C15_Irq0KeepsInterruptsOff == (sch.st = "ok" /\ sch.pc = "tick_swap") => sch.ifl = 0

\* the positions of the events of ev that write value to port
WritesTo(ev, port, value) ==
  {i \in 1 .. Len(ev) : ev[i] = PortWrite(port, value)}

\* C16: the handler of IRQ n writes end-of-interrupt to the command port
\* of the master PIC, and to that of the slave exactly when n >= 8, and
\* the handler of IRQ0 does so before it calls the scheduler
C16_EoiBeforeReturn ==
  (boot = "pic" /\ sch.irqs # << >>) =>
    /\ WritesTo(sch.events, CMD1, OCW2_EOI) # {}
    /\ (WritesTo(sch.events, CMD2, OCW2_EOI) # {}) <=> (sch.irqs[Len(sch.irqs)] >= 8)
    /\ \A i \in 1 .. Len(sch.events) : \A j \in 1 .. Len(sch.events) :
         (sch.events[i].ev = "out" /\ sch.events[j].ev = "enter") => i < j
    /\ (sch.irqs[Len(sch.irqs)] = 0) => (\E j \in 1 .. Len(sch.events) : sch.events[j].ev = "enter")

\* the handler of the first IRQ of the slave PIC has run after IRQ0's
C16_Witness ==
  boot = "pic" /\ sch.irqs = <<0, 8>> /\ Len(sch.events) = 2

\* the number of callee-saved registers context_swap pops on x86
SavedRegs == 4

\* the runnables whose context is as Thread::new built it: spawned
\* and never entered
FreshThreads(s) ==
  {t \in 1 .. s.spawned : \A k \in 1 .. Len(s.entered) : s.entered[k] # t}

\* the context of t lies at the top of t's stack buffer: the entry point
\* in the highest word, the register slots directly below it, the saved
\* stack pointer at the lowest of them, every slot inside the buffer
ContextAtTop(s, t) ==
  /\ s.mem[StackBase(t) + STACK_WORDS - 1] = RetWord("entry")
  /\ s.tsp[t] = StackBase(t) + STACK_WORDS - 1 - SavedRegs
  /\ s.tsp[t] .. (s.tsp[t] + SavedRegs) \subseteq OwnStack(t)

\* C28: a fresh runnable context is laid out at the top of its stack
\* buffer: the entry-point address in the highest word of the buffer,
\* the callee-saved slots directly below, the saved stack pointer at the
\* lowest slot, and every written or reserved slot inside the buffer
C28_FreshContextInsideStack ==
  \A t \in FreshThreads(sch) : ContextAtTop(sch, t)

\* how often runnable t is on the run-queue
TimesQueued(s, t) == Cardinality({k \in 1 .. Len(s.queue) : s.queue[k] = t})

\* t is held by the scheduler: in its running slot `work`, or in the
\* binding `thread` of run's `while let` on its way into that slot
Held(s, t) == s.work = t \/ (s.pc = "run_set" /\ s.thread = t)

\* the runnables whose Thread has been dropped are in no place, every
\* other spawned runnable is in exactly one, and one runnable is held
\* at most
OnePlaceEach(s) ==
  /\ \A t \in 1 .. s.spawned :
        TimesQueued(s, t) + (IF Held(s, t) THEN 1 ELSE 0) = (IF t \in s.freed THEN 0 ELSE 1)
  /\ Cardinality({t \in 1 .. s.spawned : Held(s, t)}) <= 1

\* C29: every runnable follows Ready -> Running -> Done only: each live
\* runnable is in exactly one place, once in the run-queue or in the
\* single running slot, at most one runnable is running, and a runnable
\* whose closure has returned is not on the run-queue and never
\* re-enters it
C29_ReturnedNeverReady ==
  /\ OnePlaceEach(sch)
  /\ \A t \in sch.returned : TimesQueued(sch, t) = 0

\* C29, with Done beginning at the drop of the Thread: each live runnable
\* is in exactly one place, at most one runnable is running, a runnable
\* whose Thread has been dropped is in neither, and a dropped Thread
\* stays dropped, so it never re-enters the run-queue
C29_OnePlaceUntilDropped ==
  /\ []OnePlaceEach(sch)
  /\ [][sch.freed \subseteq sch'.freed /\ sch.returned \subseteq sch'.returned]_vars

\* a runnable was preempted after its closure returned, is on the
\* run-queue once more, and another runnable has been dropped
C29_Witness ==
  /\ \E t \in sch.returned : TimesQueued(sch, t) = 1 /\ t \notin sch.freed
  /\ sch.freed # {}
  /\ sch.st = "ok"

\* a step in which IRQ0 is delivered
TickTaken == sch'.ticks = sch.ticks + 1

\* the saved stack pointer of t is not an address of the stack the
\* scheduler loop runs on
OffSchedulerStack(s, t) == s.tsp[t] = None \/ s.tsp[t] >= SchedTop

\* C34: whenever IRQ0 is delivered the scheduler has a running runnable
\* that is executing: enter(true) never reaches the panic `Entered while
\* not in a thread` and never saves the context of the scheduler loop in
\* the saved-stack-pointer slot of a runnable
C34_TickFindsRunningRunnable ==
  /\ [][TickTaken => sch'.st # "panic"]_vars
  /\ [](\A t \in Threads : OffSchedulerStack(sch, t))

\* C10: when every spawned runnable has returned and Scheduler::run
\* has left its loop, the kernel has not panicked
C10_RunLeavesLoopCleanly ==
  (sch.pc = "run_end" /\ sch.freed = 1 .. sch.spawned) => sch.st = "ok"

===========================================================================
